---- MODULE Spec2Model ----
(***************************************************************************)
(* Model of the tax-report pipeline of slovenski-februarski-beraci:        *)
(*   prepare_all_preprocess.py  (rate table, adapters, ISIN resolution,    *)
(*                               master ledger, audit and skip logs)       *)
(*   generate_xmls.py           (KDVP, Div and Obr documents)              *)
(*                                                                         *)
(* Conventions.                                                            *)
(*  - A calendar date 'YYYY-MM-DD' is the integer number of days since     *)
(*    2024-12-31, so 1..365 is the year 2025; the order of the canonical   *)
(*    strings is the order of the integers, date - timedelta(days=i) is    *)
(*    d - i, and Date.startswith(str(TAX_YEAR)) is YearOf(d) = TAX_YEAR.   *)
(*  - Money and quantities are integers in units of 0.00001; the input     *)
(*    sets hold no value that lies exactly halfway between two roundings,  *)
(*    where the binary representation of the float would decide.           *)
(*  - An ECB rate is an integer in hundredths (125 is 1 EUR = 1.25 USD);   *)
(*    the factor 1/raw is the fraction <<100, raw>>.                       *)
(*  - Text that the code inspects character by character (identifiers,     *)
(*    type and action names) is a tuple of one-character strings.          *)
(***************************************************************************)
EXTENDS Integers, Sequences, FiniteSets, TLC

VARIABLES
    pc,               \* position of prepare_all_preprocess.main
    rates,            \* CurrencyConverter.rates
    rate_call,        \* the last get_rate call: its arguments and its result
    revolut_csv,      \* rows of revolut.csv read so far
    t212_csv,         \* rows of trading212.csv read so far
    all_rows,         \* main: all_rows
    audit_log,        \* main: audit_log
    skipped_log,      \* main: skipped_log
    existing_isins,   \* main: existing_isins (ticker -> ISIN)
    searched_tickers, \* main: searched_tickers
    ri,               \* main: index of the resolution loop over all_rows
    isin_calls,       \* the calls of find_isin_online: ticker and result, in order
    master_file,      \* master_data.csv: whether main wrote it, and its rows
    gpc,              \* position of generate_xmls.main
    data,             \* generate_xmls.main: data, the rows read from the ledger
    kdvp_doc,         \* the KDVP envelope built by generate_kdvp
    div_doc,          \* the Dividend records built by generate_div
    obr_doc,          \* the ObrestiItem records built by generate_obr
    files,            \* the documents generate_xmls.main has written
    clean_doc         \* Doh-Div_clean.xml as post_div_clean wrote it

prep_vars == <<pc, rates, rate_call, revolut_csv, t212_csv, all_rows, audit_log,
               skipped_log, existing_isins, searched_tickers, ri, isin_calls,
               master_file>>
gen_vars == <<gpc, data, kdvp_doc, div_doc, obr_doc, files, clean_doc>>
vars == <<prep_vars, gen_vars>>

\* ------------------------------------------------------------------ bounds
MaxDay == 3
MaxRows == 3
MaxLedger == 3

\* --------------------------------------------------------- program constants
TAX_YEAR == 2025
LookBackDays == 5

\* ------------------------------------------------------------- characters
LowerCase == <<"a","b","c","d","e","f","g","h","i","j","k","l","m",
               "n","o","p","q","r","s","t","u","v","w","x","y","z">>
UpperCase == <<"A","B","C","D","E","F","G","H","I","J","K","L","M",
               "N","O","P","Q","R","S","T","U","V","W","X","Y","Z">>

Range(s) == {s[i] : i \in DOMAIN s}

IndexIn(c, alphabet) == CHOOSE i \in DOMAIN alphabet : alphabet[i] = c

\* the upper-case letter of each lower-case letter, and the reverse
UpperOf == [c \in Range(LowerCase) |-> UpperCase[IndexIn(c, LowerCase)]]
LowerOf == [c \in Range(UpperCase) |-> LowerCase[IndexIn(c, UpperCase)]]

\* str.upper() and str.lower(), one character
UpperChar(c) == IF c \in DOMAIN UpperOf THEN UpperOf[c] ELSE c
LowerChar(c) == IF c \in DOMAIN LowerOf THEN LowerOf[c] ELSE c

Upper(s) == [i \in DOMAIN s |-> UpperChar(s[i])]
Lower(s) == [i \in DOMAIN s |-> LowerChar(s[i])]

\* str.isalpha(): non-empty and every character a letter
IsAlpha(s) == Len(s) > 0 /\ \A i \in DOMAIN s : s[i] \in Range(LowerCase) \cup Range(UpperCase)

\* s[:n]
Prefix(s, n) == SubSeq(s, 1, IF Len(s) < n THEN Len(s) ELSE n)

\* sub in s
Contains(s, sub) ==
    \E i \in 1..(Len(s) - Len(sub) + 1) : SubSeq(s, i, i + Len(sub) - 1) = sub

\* str.strip() of blanks
RECURSIVE LStrip(_)
LStrip(s) == IF s # <<>> /\ Head(s) = " " THEN LStrip(Tail(s)) ELSE s
RECURSIVE RStrip(_)
RStrip(s) == IF s # <<>> /\ s[Len(s)] = " " THEN RStrip(SubSeq(s, 1, Len(s) - 1)) ELSE s
Strip(s) == RStrip(LStrip(s))

\* A missing cell as pandas reads it (float NaN), kept apart from every text.
NaN == <<"<NaN>">>

\* --------------------------------------------------------------- dates
YearOf(d) == IF d < 1 THEN 2024 ELSE IF d <= 365 THEN 2025 ELSE 2026

\* ------------------------------------------------------------ rate table
\* A table maps the dates that have a row to the row; a row maps each currency
\* column to its cell: a rate, or the NaN of an empty cell.
EmptyTable == <<>>

Rate(x) == [nan |-> FALSE, v |-> x]
NanCell == [nan |-> TRUE, v |-> 0]
RateCells == {NanCell, Rate(0), Rate(125), Rate(200)}

\* get_rate's three results: (1 / raw_rate, check_date, raw_rate), (None, None,
\* None), and the ZeroDivisionError of 1 / raw_rate.
Found(raw, d) == [kind |-> "found", rate |-> <<100, raw>>, date |-> d, raw |-> raw]
NotFound == [kind |-> "none", rate |-> <<0, 1>>, date |-> 0, raw |-> 0]
ZeroDivision == [kind |-> "raise", rate |-> <<0, 1>>, date |-> 0, raw |-> 0]
ReportingCurrency(d) == [kind |-> "found", rate |-> <<1, 1>>, date |-> d, raw |-> 1]

HasRate(rt, d, currency) ==
    /\ d \in DOMAIN rt
    /\ currency \in DOMAIN rt[d]
    /\ ~rt[d][currency].nan

RECURSIVE LookBack4(_, _, _, _)
LookBack4(rt, target_date, currency, i) ==
    IF i >= LookBackDays - 1 THEN NotFound
    ELSE LET check_date == target_date - i
         IN  IF HasRate(rt, check_date, currency)
             THEN LET raw_rate == rt[check_date][currency].v
                  IN  IF raw_rate = 0 THEN ZeroDivision ELSE Found(raw_rate, check_date)
             ELSE LookBack4(rt, target_date, currency, i + 1)

RECURSIVE LookBack(_, _, _, _)
LookBack(rt, target_date, currency, i) ==
    IF i >= LookBackDays THEN NotFound
    ELSE LET check_date == target_date - i
         IN  IF HasRate(rt, check_date, currency)
             THEN LET raw_rate == rt[check_date][currency].v
                  IN  IF raw_rate = 0 THEN ZeroDivision ELSE Found(raw_rate, check_date)
             ELSE LookBack(rt, target_date, currency, i + 1)

get_rate(rt, date_str, currency) ==
    IF currency = "EUR" THEN ReportingCurrency(date_str)
    ELSE LookBack(rt, date_str, currency, 0)

\* Every table with rows for some of the days 1..MaxDay and one currency column.
AllTables ==
    UNION {[days -> {[USD |-> c] : c \in RateCells}] : days \in SUBSET (1..MaxDay)}

RequestDates == 1..(MaxDay + LookBackDays)
RequestCurrencies == {"EUR", "USD", "CHF"}

EmptyDict == [k \in {} |-> <<>>]

NoCall == [date |-> 0, currency |-> "EUR", result |-> NotFound]
NoFile == [written |-> FALSE, rows |-> <<>>]

\* The state before main() runs, and after CurrencyConverter.__init__ set
\* self.rates = {}.
PrepIdle ==
    /\ rates = EmptyTable
    /\ rate_call = NoCall
    /\ revolut_csv = <<>>
    /\ t212_csv = <<>>
    /\ all_rows = <<>>
    /\ audit_log = <<>>
    /\ skipped_log = <<>>
    /\ existing_isins = EmptyDict
    /\ searched_tickers = {}
    /\ ri = 0
    /\ isin_calls = <<>>
    /\ master_file = NoFile

\* A document of generate_xmls.main not yet built
NoDoc == [built |-> FALSE, raised |-> FALSE, items |-> <<>>]
NotCleaned == [written |-> FALSE, removed_count |-> 0, body |-> <<>>]

\* The state before generate_xmls.main runs
GenIdle ==
    /\ data = <<>>
    /\ kdvp_doc = NoDoc
    /\ div_doc = NoDoc
    /\ obr_doc = NoDoc
    /\ files = {}
    /\ clean_doc = NotCleaned

\* load_ecb_rates: the download and the parse succeed and self.rates is the
\* table, or anything raises and self.rates stays {}.
LoadEcbRates(tables) ==
    /\ pc = "load"
    /\ \E t \in tables \cup {EmptyTable} : rates' = t
    /\ pc' = "loaded"
    /\ UNCHANGED <<rate_call, revolut_csv, t212_csv, all_rows, audit_log, skipped_log,
                   existing_isins, searched_tickers, ri, isin_calls, master_file>>
    /\ UNCHANGED gen_vars

\* ------------------------------------------------ get_rate on its own
LoadAnyTable == LoadEcbRates(AllTables)

GetRate ==
    /\ pc = "loaded"
    /\ \E d \in RequestDates, c \in RequestCurrencies :
          rate_call' = [date |-> d, currency |-> c, result |-> get_rate(rates, d, c)]
    /\ pc' = "called"
    /\ UNCHANGED <<rates, revolut_csv, t212_csv, all_rows, audit_log, skipped_log,
                   existing_isins, searched_tickers, ri, isin_calls, master_file>>
    /\ UNCHANGED gen_vars

InitRate == pc = "load" /\ gpc = "idle" /\ PrepIdle /\ GenIdle
NextRate == LoadAnyTable \/ GetRate
SpecRate == InitRate /\ [][NextRate]_vars

\* The days d-0 .. d-4 on which the table has a row with a non-missing rate.
RateDays(rt, d, currency) ==
    {i \in 0..(LookBackDays - 1) : HasRate(rt, d - i, currency)}

FirstRateDay(rt, d, currency) ==
    CHOOSE i \in RateDays(rt, d, currency) : \A j \in RateDays(rt, d, currency) : i <= j

\* C1: for a currency other than EUR, get_rate returns the factor 1/raw and the
\* date d-i of the smallest i in 0..4 whose day has a row with a non-missing rate
\* for the currency, and returns not-found when there is no such i: for a date 5
\* or more days after the last rate, and for every request on an empty table.
\* (1/raw is a factor only for raw # 0; a zero rate raises, see ZeroDivision.)
C1_LookBack ==
    (pc = "called" /\ rate_call.currency # "EUR") =>
        LET d == rate_call.date
            c == rate_call.currency
            res == rate_call.result
        IN  /\ RateDays(rates, d, c) = {} <=> res = NotFound
            /\ RateDays(rates, d, c) # {} =>
                  LET i == FirstRateDay(rates, d, c)
                      raw == rates[d - i][c].v
                  IN  /\ raw # 0 => res = [kind |-> "found", rate |-> <<100, raw>>,
                                            date |-> d - i, raw |-> raw]
                      /\ raw = 0 => res.kind = "raise"
            /\ rates = EmptyTable => res = NotFound
            /\ (\A day \in DOMAIN rates : d >= day + LookBackDays) => res = NotFound

\* A table holding one day's rate answers a request three days later with that
\* day's rate and date.
C1_Witness ==
    /\ pc = "called"
    /\ DOMAIN rates = {1}
    /\ rate_call.date = 4
    /\ rate_call.currency = "USD"
    /\ rate_call.result = Found(125, 1)

\* ------------------------------------------------------------- floats
\* A float is a number (in the unit of its column) or NaN.
F(x) == [nan |-> FALSE, v |-> x]
FNaN == [nan |-> TRUE, v |-> 0]

FAbs(a) == IF a.nan THEN FNaN ELSE F(IF a.v < 0 THEN -a.v ELSE a.v)

\* amount * rate, the rate a fraction <<num, den>>
FMulRate(a, rate) == IF a.nan THEN FNaN ELSE F((a.v * rate[1]) \div rate[2])

\* Total * Exchange rate, the exchange rate in hundredths
FMulHundredths(a, b) == IF a.nan \/ b.nan THEN FNaN ELSE F((a.v * b.v) \div 100)

\* Python truth of a float: NaN is true, 0.0 is false
FTruthy(a) == a.nan \/ a.v # 0

\* clean_number of a numeric cell: 0.0 for a false value, float(value) otherwise
clean_number(value) == IF ~FTruthy(value) THEN F(0) ELSE value

\* ----------------------------------------------------------- cell texts
\* Tickers, names and currencies are compared as wholes and are strings; an
\* empty cell is the string "<NaN>" (pandas' NaN: true, and pd.isna).
NaNText == "<NaN>"
Truthy(text) == text # ""
IsNa(text) == text = NaNText

\* a or b
OrElse(a, b) == IF Truthy(a) THEN a ELSE b

\* A date cell: text pd.to_datetime parses to day d, or text (or an empty
\* cell, NaT) on which pd.to_datetime(...).strftime raises.
DateCell(d) == [ok |-> TRUE, d |-> d]
BadDate == [ok |-> FALSE, d |-> 0]

\* ------------------------------------------------------- process_revolut
\* lines 91-100 with a kind for every row: a type that matches nothing is
\* taken for interest
RevolutTransTypeGuess(r_type, desc) ==
    IF r_type \in {<<"B","U","Y">>,
                   <<"M","A","R","K","E","T"," ","B","U","Y">>} THEN "BUY"
    ELSE IF r_type \in {<<"S","E","L","L">>,
                        <<"M","A","R","K","E","T"," ","S","E","L","L">>} THEN "SELL"
    ELSE IF r_type \in {<<"D","I","V","I","D","E","N","D">>, <<"D","I","V">>}
    THEN "DIV"
    ELSE "INTEREST"

\* lines 91-100: the kind of a Revolut row, "" when none matches
RevolutTransType(r_type, desc) ==
    IF r_type \in {<<"B","U","Y">>,
                   <<"M","A","R","K","E","T"," ","B","U","Y">>} THEN "BUY"
    ELSE IF r_type \in {<<"S","E","L","L">>,
                        <<"M","A","R","K","E","T"," ","S","E","L","L">>} THEN "SELL"
    ELSE IF r_type \in {<<"D","I","V","I","D","E","N","D">>, <<"D","I","V">>}
    THEN "DIV"
    ELSE IF \/ r_type = <<"I","N","T","E","R","E","S","T">>
            \/ Contains(desc, <<"S","A","V","I","N","G","S">>)
    THEN "INTEREST"
    ELSE ""

SkipRecord(source, row, reason, raw) ==
    [Source |-> source, Row |-> row, Reason |-> reason, RawData |-> raw]

Skipped(rec) == [kind |-> "skip", rows |-> <<>>, audit |-> <<>>, skipped |-> <<rec>>]
Raised == [kind |-> "raise", rows |-> <<>>, audit |-> <<>>, skipped |-> <<>>]
Emitted(r, audit, skipped) ==
    [kind |-> "row", rows |-> <<r>>, audit |-> audit, skipped |-> skipped]

\* lines 120-132 without the test of line 123: every row goes through get_rate
RevolutConvertAlways(rt, date_str, ticker, amount, currency) ==
    LET got == get_rate(rt, date_str, currency)
    IN  IF got.kind = "raise"
        THEN [kind |-> "raise", final_eur |-> amount, audit |-> <<>>]
        ELSE IF got.kind = "found"
        THEN [kind |-> "ok", final_eur |-> FMulRate(amount, got.rate),
              audit |-> <<[Date |-> date_str, Source |-> "Revolut",
                           Ticker |-> ticker, OrigAmount |-> amount,
                           Curr |-> currency, RateUsed |-> got.raw,
                           FinalEUR |-> FMulRate(amount, got.rate)]>>]
        ELSE [kind |-> "ok", final_eur |-> amount, audit |-> <<>>]

\* lines 120-132: (final_eur, audit records) of a row, or the raise of get_rate
RevolutConvert(rt, date_str, ticker, amount, currency) ==
    IF currency = "EUR" THEN [kind |-> "ok", final_eur |-> amount, audit |-> <<>>]
    ELSE LET got == get_rate(rt, date_str, currency)
         IN  IF got.kind = "raise"
             THEN [kind |-> "raise", final_eur |-> amount, audit |-> <<>>]
             ELSE IF got.kind = "found"
             THEN LET final_eur == FMulRate(amount, got.rate)
                  IN  [kind |-> "ok", final_eur |-> final_eur,
                       audit |-> <<[Date |-> date_str, Source |-> "Revolut",
                                    Ticker |-> ticker, OrigAmount |-> amount,
                                    Curr |-> currency, RateUsed |-> got.raw,
                                    FinalEUR |-> final_eur]>>]
             ELSE [kind |-> "ok", final_eur |-> amount, audit |-> <<>>]

\* lines 86-142: one iteration of the loop over the rows of revolut.csv.
\* Row (in the ledger row) is the index of the input row the dict was built
\* from; the program does not store it, the properties below read it.
RevolutRow(rt, idx, row) ==
    LET r_type == Upper(row.Type)
        ticker == OrElse(row.Ticker, row.Symbol)
        desc == Upper(row.Description)
        trans_type == RevolutTransType(r_type, desc)
    IN  IF trans_type = ""
        THEN Skipped(SkipRecord("Revolut", idx, "Type not relevant", "<row>"))
        ELSE IF trans_type \in {"BUY", "SELL", "DIV"} /\ (~Truthy(ticker) \/ IsNa(ticker))
        THEN Skipped(SkipRecord("Revolut", idx, "Stock trade missing Ticker", "<row>"))
        ELSE IF ~row.Date.ok
        THEN Skipped(SkipRecord("Revolut", idx, "Invalid Date", "<raw_date>"))
        ELSE LET date_str == row.Date.d
                 amount == FAbs(clean_number(
                               IF FTruthy(row.TotalAmount) THEN row.TotalAmount
                               ELSE row.Amount))
                 currency == row.Currency
                 conv == RevolutConvert(rt, date_str, ticker, amount, currency)
             IN  IF conv.kind = "raise" THEN Raised
                 ELSE Emitted([Source |-> "Revolut", Date |-> date_str,
                               Type |-> trans_type,
                               Ticker |-> IF Truthy(ticker) THEN ticker ELSE "CASH",
                               Quantity |-> clean_number(row.Quantity),
                               TotalValueEUR |-> conv.final_eur,
                               ISIN |-> <<>>,
                               Name |-> IF Truthy(ticker) THEN ticker
                                        ELSE "Revolut Interest",
                               TaxPaidEUR |-> F(0),
                               Row |-> idx],
                              conv.audit, <<>>)

\* --------------------------------------------------------- process_t212
\* lines 155-169 with a kind for every action: the last branch guesses
T212TransTypeGuess(action) ==
    IF Contains(action, <<"b","u","y">>) THEN "BUY"
    ELSE IF Contains(action, <<"s","e","l","l">>) THEN "SELL"
    ELSE IF Contains(action, <<"d","i","v","i","d","e","n","d">>) THEN "DIV"
    ELSE IF Contains(action, <<"l","e","n","d","i","n","g">>) THEN "LENDING"
    ELSE IF Contains(action, <<"i","n","t","e","r","e","s","t">>) THEN "INTEREST"
    ELSE "OTHER"

\* lines 155-169: the kind of a T212 row, "" when the action is skipped
T212TransType(action) ==
    IF Contains(action, <<"b","u","y">>) THEN "BUY"
    ELSE IF Contains(action, <<"s","e","l","l">>) THEN "SELL"
    ELSE IF Contains(action, <<"d","i","v","i","d","e","n","d">>) THEN "DIV"
    ELSE IF Contains(action, <<"l","e","n","d","i","n","g">>) THEN "LENDING"
    ELSE IF Contains(action, <<"i","n","t","e","r","e","s","t">>) THEN "INTEREST"
    ELSE ""

\* lines 152-183: one iteration of the loop over the rows of trading212.csv
T212Row(idx, row) ==
    LET action == Lower(row.Action)
        trans_type == T212TransType(action)
    IN  IF trans_type = ""
        THEN Skipped(SkipRecord("T212", idx, "Action skipped", "<row>"))
        ELSE IF ~row.Time.ok THEN Raised
        ELSE LET date_str == row.Time.d
                 total0 == clean_number(row.TotalEUR)
                 total == IF ~total0.nan /\ total0.v = 0
                          THEN FMulHundredths(clean_number(row.Total),
                                              clean_number(row.ExchangeRate))
                          ELSE total0
             IN  Emitted([Source |-> "T212", Date |-> date_str, Type |-> trans_type,
                          Ticker |-> OrElse(row.Ticker, "CASH"),
                          Quantity |-> clean_number(row.Shares),
                          TotalValueEUR |-> FAbs(total),
                          ISIN |-> row.ISIN,
                          Name |-> OrElse(row.Name, "T212 Interest"),
                          TaxPaidEUR |-> FAbs(clean_number(row.Tax)),
                          Row |-> idx],
                         <<>>, <<>>)

\* ------------------------------------------------------------ the inputs
I_US1 == <<"U","S","1">>
I_DE2 == <<"D","E","2">>
I_US9 == <<"U","S","9">>
I_DASH == <<" ","-">>


RevRow(type, ticker, desc, date, amount, currency, qty) ==
    [Type |-> type, Ticker |-> ticker, Symbol |-> "", Description |-> desc,
     Date |-> date, TotalAmount |-> F(0), Amount |-> amount, Currency |-> currency,
     Quantity |-> qty]

\* Rows of a Revolut export: trades in USD and in EUR, on a day with a rate one
\* day back (10) and on a day with none in reach (8), a dividend, interest
\* without a ticker, and rows the adapter drops.
RevolutRows ==
    { RevRow(<<"b","u","y">>, "AAA", <<>>, DateCell(10), F(-250000), "USD", F(100000)),
      RevRow(<<"b","u","y">>, "AAA", <<>>, DateCell(10), F(250000), "EUR", F(100000)),
      RevRow(<<"b","u","y">>, "BBB", <<>>, DateCell(8), F(250000), "USD", F(100000)),
      RevRow(<<"D","I","V","I","D","E","N","D">>, "AAA", <<>>, DateCell(10), F(125000), "USD", F(0)),
      RevRow(<<"C","U","S","T","O","D","Y">>, NaNText, <<"S","a","v","i","n","g","s">>, DateCell(10), F(300), "EUR", FNaN),
      RevRow(<<"T","O","P","-","U","P">>, NaNText, <<>>, DateCell(10), F(500000), "EUR", FNaN),
      RevRow(<<"S","E","L","L">>, NaNText, <<>>, DateCell(10), F(500000), "EUR", F(100000)),
      RevRow(<<"S","E","L","L">>, "BBB", <<>>, BadDate, F(500000), "EUR", F(100000)),
      RevRow(<<"S","E","L","L">>, "BBB", <<>>, DateCell(10), F(500000), "EUR", F(-100000)) }

T212In(action, time, ticker, isin, total_eur, shares, tax) ==
    [Action |-> action, Time |-> time, Ticker |-> ticker, ISIN |-> isin,
     Name |-> ticker, TotalEUR |-> total_eur, Total |-> F(400000),
     ExchangeRate |-> F(80), Shares |-> shares, Tax |-> tax]

\* Rows of a Trading212 export: trades with and without an ISIN, two ISINs for
\* one ticker, a dividend and interest without an ISIN, a skipped action, a
\* row whose Time does not parse, share-lending interest, and a sale with an
\* empty Ticker cell and a negative number of shares.
T212Rows ==
    { T212In(<<"M","a","r","k","e","t"," ","b","u","y">>, DateCell(10), "AAA", I_US1, F(300000), F(100000), F(0)),
      T212In(<<"M","a","r","k","e","t"," ","s","e","l","l">>, DateCell(8), "AAA", NaN, F(0), F(100000), F(0)),
      T212In(<<"D","i","v","i","d","e","n","d"," ","(","O","r","d",")">>, DateCell(10), "AAA", NaN, F(2000), F(0), F(-300)),
      T212In(<<"M","a","r","k","e","t"," ","b","u","y">>, DateCell(10), "AAA", I_DE2, F(300000), F(100000), F(0)),
      T212In(<<"M","a","r","k","e","t"," ","b","u","y">>, DateCell(8), "BBB", I_DASH, F(300000), F(100000), F(0)),
      T212In(<<"I","n","t","e","r","e","s","t"," ","o","n"," ","c","a","s","h">>, DateCell(10), NaNText, NaN, F(150), FNaN, F(0)),
      T212In(<<"D","e","p","o","s","i","t">>, DateCell(10), NaNText, NaN, F(300000), FNaN, F(0)),
      T212In(<<"M","a","r","k","e","t"," ","s","e","l","l">>, BadDate, "BBB", NaN, F(300000), F(100000), F(0)),
      T212In(<<"L","e","n","d","i","n","g"," ","i","n","t","e","r","e","s","t">>, DateCell(10), NaNText, NaN, F(2000), FNaN, F(0)),
      T212In(<<"M","a","r","k","e","t"," ","s","e","l","l">>, DateCell(10), NaNText, NaN, F(300000), F(-100000), F(0)) }

\* Rate tables of a run: a rate on day 9 only, and a zero rate on day 10.
SampleTable == [d \in {9} |-> [USD |-> Rate(125)]]
ZeroTable == [d \in {10} |-> [USD |-> Rate(0)]]
RunTables == {SampleTable, ZeroTable}

\* What find_isin_online returns: an ISIN, or '' (nothing found, or an error)
LookupResults == {I_US9, <<>>}

\* ------------------------------------------------------------ clean_isin

clean_isin(value) ==
    IF value = NaN THEN <<>>
    ELSE LET text == Strip(value)
         IN  IF Lower(text) \in {<<"n","a","n">>, <<"n","o","n","e">>, <<>>, <<"-">>} THEN <<>> ELSE text

\* --------------------------------------------------------------- main
\* d[k] = v
DictPut(d, k, v) == [x \in DOMAIN d \cup {k} |-> IF x = k THEN v ELSE d[x]]

\* lines 339-342, with the loop starting at the second row
BuildCacheSkipFirst(rows, cache) ==
    LET carrying(t) == {j \in 2..Len(rows) : rows[j].Ticker = t /\ rows[j].ISIN # <<>>}
        keys == {rows[j].Ticker : j \in {k \in 2..Len(rows) : rows[k].ISIN # <<>>}}
    IN  [t \in DOMAIN cache \cup keys |->
            IF carrying(t) = {} THEN cache[t]
            ELSE rows[CHOOSE j \in carrying(t) : \A k \in carrying(t) : k <= j].ISIN]

\* lines 339-342, a row's identifier kept once the ticker has one
RECURSIVE BuildCacheFirst(_, _)
BuildCacheFirst(rows, cache) ==
    IF rows = <<>> THEN cache
    ELSE LET r == Head(rows)
         IN  BuildCacheFirst(Tail(rows),
                             IF r.ISIN # <<>> /\ r.Ticker \notin DOMAIN cache
                             THEN DictPut(cache, r.Ticker, r.ISIN) ELSE cache)

\* lines 339-342: the cache of the identifiers the rows carry, later rows
\* replacing earlier ones
RECURSIVE BuildCache(_, _)
BuildCache(rows, cache) ==
    IF rows = <<>> THEN cache
    ELSE LET r == Head(rows)
         IN  BuildCache(Tail(rows),
                        IF r.ISIN # <<>> THEN DictPut(cache, r.Ticker, r.ISIN) ELSE cache)

\* a sort that is not stable: a row goes before the rows of its date
RECURSIVE InsertByDateUnstable(_, _)
InsertByDateUnstable(sorted, r) ==
    IF sorted = <<>> THEN <<r>>
    ELSE IF sorted[Len(sorted)].Date < r.Date THEN Append(sorted, r)
    ELSE Append(InsertByDateUnstable(SubSeq(sorted, 1, Len(sorted) - 1), r),
                sorted[Len(sorted)])

\* list.sort(key=lambda x: x['Date']): stable insertion by date
RECURSIVE InsertByDate(_, _)
InsertByDate(sorted, r) ==
    IF sorted = <<>> THEN <<r>>
    ELSE IF sorted[Len(sorted)].Date <= r.Date THEN Append(sorted, r)
    ELSE Append(InsertByDate(SubSeq(sorted, 1, Len(sorted) - 1), r), sorted[Len(sorted)])

RECURSIVE SortByDate(_)
SortByDate(rows) ==
    IF rows = <<>> THEN <<>>
    ELSE InsertByDate(SortByDate(SubSeq(rows, 1, Len(rows) - 1)), rows[Len(rows)])

\* DataFrame.to_csv of a float: its digits, and an empty cell for NaN. The cell
\* is what csv.DictReader hands to float(): num is whether float() accepts it.
CsvNumber(f) == [num |-> ~f.nan, v |-> f.v]

CsvRow(r) ==
    [Source |-> r.Source, Date |-> r.Date, Type |-> r.Type, Ticker |-> r.Ticker,
     ISIN |-> r.ISIN, Name |-> r.Name, Quantity |-> CsvNumber(r.Quantity),
     TotalValueEUR |-> CsvNumber(r.TotalValueEUR),
     TaxPaidEUR |-> CsvNumber(r.TaxPaidEUR)]

InputRows == Len(revolut_csv) + Len(t212_csv)

LoadRunTable == LoadEcbRates(RunTables)

\* main line 325 starts process_revolut
StartRevolut ==
    /\ pc = "loaded"
    /\ pc' = "revolut"
    /\ UNCHANGED <<rates, rate_call, revolut_csv, t212_csv, all_rows, audit_log,
                   skipped_log, existing_isins, searched_tickers, ri, isin_calls,
                   master_file>>
    /\ UNCHANGED gen_vars

\* process_revolut, one row of the file. A raise leaves main with the rows
\* extended so far (none) and ends the run. rate_call keeps the get_rate call
\* of line 124, made for a row that reached it with a currency other than EUR.
ProcessRevolutRow ==
    /\ pc = "revolut"
    /\ InputRows < MaxRows
    /\ \E row \in RevolutRows :
          LET out == RevolutRow(rates, Len(revolut_csv), row)
          IN  /\ revolut_csv' = Append(revolut_csv, row)
              /\ all_rows' = IF out.kind = "raise" THEN <<>> ELSE all_rows \o out.rows
              /\ audit_log' = audit_log \o out.audit
              /\ skipped_log' = skipped_log \o out.skipped
              /\ pc' = IF out.kind = "raise" THEN "crashed" ELSE "revolut"
              /\ rate_call' = IF out.kind # "skip" /\ row.Currency # "EUR"
                               THEN [date |-> row.Date.d, currency |-> row.Currency,
                                     result |-> get_rate(rates, row.Date.d, row.Currency)]
                               ELSE rate_call
    /\ UNCHANGED <<rates, t212_csv, existing_isins, searched_tickers, ri,
                   isin_calls, master_file>>
    /\ UNCHANGED gen_vars

\* the file ends (or does not exist): main line 326 starts process_t212
EndRevolut ==
    /\ pc = "revolut"
    /\ pc' = "t212"
    /\ UNCHANGED <<rates, rate_call, revolut_csv, t212_csv, all_rows, audit_log,
                   skipped_log, existing_isins, searched_tickers, ri, isin_calls,
                   master_file>>
    /\ UNCHANGED gen_vars

\* process_t212, one row of the file. A raise (line 171) leaves main with the
\* Revolut rows only and ends the run.
ProcessT212Row ==
    /\ pc = "t212"
    /\ InputRows < MaxRows
    /\ \E row \in T212Rows :
          LET out == T212Row(Len(t212_csv), row)
          IN  /\ t212_csv' = Append(t212_csv, row)
              /\ all_rows' = IF out.kind = "raise"
                             THEN SelectSeq(all_rows, LAMBDA r : r.Source = "Revolut")
                             ELSE all_rows \o out.rows
              /\ skipped_log' = skipped_log \o out.skipped
              /\ pc' = IF out.kind = "raise" THEN "crashed" ELSE "t212"
    /\ UNCHANGED <<rates, rate_call, revolut_csv, audit_log, existing_isins,
                   searched_tickers, ri, isin_calls, master_file>>
    /\ UNCHANGED gen_vars

\* the file ends; process_ibkr adds no row (lines 187-196); lines 331-347:
\* every row's ISIN is sanitized and the cache is built
SanitizeAndCache ==
    /\ pc = "t212"
    /\ LET clean == [i \in DOMAIN all_rows |->
                        [all_rows[i] EXCEPT !.ISIN = clean_isin(all_rows[i].ISIN)]]
       IN  /\ all_rows' = clean
           /\ existing_isins' = BuildCache(clean, EmptyDict)
    /\ searched_tickers' = {}
    /\ ri' = 1
    /\ pc' = "resolve"
    /\ UNCHANGED <<rates, rate_call, revolut_csv, t212_csv, audit_log, skipped_log,
                   isin_calls, master_file>>
    /\ UNCHANGED gen_vars

\* line 351: the resolution pass looks only at BUY and SELL rows
IsTrade(r) == r.Type \in {"BUY", "SELL"}

\* line 367, without the test: every row without an identifier searches
NotSearchedAlways(ticker, searched) == TRUE

\* line 367: if ticker not in searched_tickers
NotSearched(ticker, searched) == ticker \notin searched

\* lines 378-387, without the append
IsinNotFoundSilent(ticker) == <<>>

\* lines 378-387: the failure is appended to the skip log
IsinNotFound(ticker) == <<SkipRecord("ISIN_CHECK", "N/A", "ISIN NOT FOUND", ticker)>>

\* lines 349-392, one iteration of the loop over all_rows; the row is changed
\* in place. find_isin_online (lines 295-308) returns the ISIN yfinance
\* reports, or '' when it reports none or raises.
ResolveRow ==
    /\ pc = "resolve"
    /\ ri <= Len(all_rows)
    /\ LET r == all_rows[ri]
           ticker == r.Ticker
       IN  IF ~IsTrade(r) \/ r.ISIN # <<>>
           THEN UNCHANGED <<all_rows, existing_isins, searched_tickers, isin_calls,
                            skipped_log>>
           ELSE IF ticker \in DOMAIN existing_isins
           THEN /\ all_rows' = [all_rows EXCEPT ![ri].ISIN = existing_isins[ticker]]
                /\ UNCHANGED <<existing_isins, searched_tickers, isin_calls, skipped_log>>
           ELSE IF NotSearched(ticker, searched_tickers)
           THEN /\ searched_tickers' = searched_tickers \cup {ticker}
                /\ \E found_isin \in LookupResults :
                      /\ isin_calls' = Append(isin_calls,
                                              [ticker |-> ticker, found |-> found_isin])
                      /\ IF found_isin # <<>>
                         THEN /\ all_rows' = [all_rows EXCEPT ![ri].ISIN = found_isin]
                              /\ existing_isins' =
                                    DictPut(existing_isins, ticker, found_isin)
                              /\ UNCHANGED skipped_log
                         ELSE /\ skipped_log' = skipped_log \o IsinNotFound(ticker)
                              /\ UNCHANGED <<all_rows, existing_isins>>
           ELSE UNCHANGED <<all_rows, existing_isins, searched_tickers, isin_calls,
                            skipped_log>>
    /\ ri' = ri + 1
    /\ UNCHANGED <<pc, rates, rate_call, revolut_csv, t212_csv, audit_log, master_file>>
    /\ UNCHANGED gen_vars

\* lines 395-400: sort, write the ledger and the logs. pd.DataFrame([])[keys]
\* raises KeyError when there is no row at all.
Save ==
    /\ pc = "resolve"
    /\ ri > Len(all_rows)
    /\ all_rows' = SortByDate(all_rows)
    /\ IF all_rows = <<>>
       THEN pc' = "crashed" /\ UNCHANGED master_file
       ELSE /\ pc' = "done"
            /\ master_file' = [written |-> TRUE,
                                rows |-> [i \in DOMAIN all_rows |->
                                             CsvRow(SortByDate(all_rows)[i])]]
    /\ UNCHANGED <<rates, rate_call, revolut_csv, t212_csv, audit_log, skipped_log,
                   existing_isins, searched_tickers, ri, isin_calls>>
    /\ UNCHANGED gen_vars

Init == pc = "load" /\ gpc = "idle" /\ PrepIdle /\ GenIdle

Next ==
    \/ LoadRunTable
    \/ StartRevolut
    \/ ProcessRevolutRow
    \/ EndRevolut
    \/ ProcessT212Row
    \/ SanitizeAndCache
    \/ ResolveRow
    \/ Save

Spec == Init /\ [][Next]_vars

\* =========================================================== generate_xmls
\* A row of master_data.csv as csv.DictReader reads it: every value is text.
\* A numeric cell is [num, v]: num is whether float() accepts the text.
Num(x) == [num |-> TRUE, v |-> x]
EmptyCell == [num |-> FALSE, v |-> 0]

RECURSIVE Pow10(_)
Pow10(n) == IF n = 0 THEN 1 ELSE 10 * Pow10(n - 1)

\* the nearest of lo and lo + 1 to lo + rem / q, an exact tie to the even one
HalfEven(lo, rem, q) ==
    IF 2 * rem > q THEN lo + 1
    ELSE IF 2 * rem < q THEN lo
    ELSE IF lo % 2 = 0 THEN lo ELSE lo + 1

\* line 75: round(v, precision) of v >= 0, in units of 10^-precision
RoundTo(a, precision) ==
    HalfEven(a \div Pow10(5 - precision), a % Pow10(5 - precision),
             Pow10(5 - precision))

\* The text f"{rounded:.{precision}f}": a sign, and the digits n in units of
\* 10^-precision. A negative value that rounds to zero formats as "-0.00".
Dec(neg, n, precision) == [none |-> FALSE, neg |-> neg, n |-> n, p |-> precision]
None == [none |-> TRUE, neg |-> FALSE, n |-> 0, p |-> 0]

\* float(text) <= 0, > 0, == 0 of a formatted decimal
DecPositive(s) == ~s.neg /\ s.n > 0
DecZero(s) == s.n = 0

\* lines 70-73: float(value), and 0.0 when float() raises
FloatOrZero(value) == IF value.num THEN value.v ELSE 0

Magnitude(v) == IF v < 0 THEN -v ELSE v

\* lines 77-80: None for a zero that is refused, else the formatted text
Formatted(neg, rounded, precision, require_nonzero) ==
    IF require_nonzero /\ rounded = 0 THEN None
    ELSE Dec(neg, rounded, precision)

\* lines 65-80
format_decimal(value, precision, require_nonzero) ==
    Formatted(FloatOrZero(value) < 0,
              RoundTo(Magnitude(FloatOrZero(value)), precision),
              precision, require_nonzero)

\* An XML element with text, and one with children
El(tag, text) == [tag |-> tag, text |-> text]
Node(tag, children, src) == [tag |-> tag, children |-> children, src |-> src]

\* lines 92-102: what add_decimal_el does with the formatted text s
AddFormatted(children, tag, s, omit_if_zero) ==
    IF s.none THEN [ok |-> FALSE, children |-> children]
    ELSE IF omit_if_zero /\ DecZero(s) THEN [ok |-> TRUE, children |-> children]
    ELSE [ok |-> TRUE, children |-> Append(children, El(tag, s))]

\* lines 83-102: the children of parent after add_decimal_el, and its result
add_decimal_el(children, tag, value, precision, require_nonzero, omit_if_zero) ==
    AddFormatted(children, tag, format_decimal(value, precision, require_nonzero),
                 omit_if_zero)

InTaxYear(t) == YearOf(t.Date) = TAX_YEAR

\* lines 138-141: the tickers of the BUY and SELL rows, in order of first
\* appearance (the keys of grouped), and a ticker's rows (its list)
RECURSIVE GroupKeys(_, _)
GroupKeys(transactions, seen) ==
    IF transactions = <<>> THEN <<>>
    ELSE LET t == Head(transactions)
             first == t.Type \in {"BUY", "SELL"} /\ t.Ticker \notin seen
         IN  (IF first THEN <<t.Ticker>> ELSE <<>>)
             \o GroupKeys(Tail(transactions),
                          IF first THEN seen \cup {t.Ticker} ELSE seen)

\* the indices of a ticker's BUY and SELL rows in transactions
TradesOf(transactions, ticker) ==
    SelectSeq([i \in DOMAIN transactions |-> i],
              LAMBDA i : /\ transactions[i].Type \in {"BUY", "SELL"}
                         /\ transactions[i].Ticker = ticker)

\* line 146: the filter of a group
HasSellInYear(transactions, trades) ==
    \E k \in DOMAIN trades :
        /\ transactions[trades[k]].Type = "SELL"
        /\ InTaxYear(transactions[trades[k]])

\* trades.sort(key=lambda x: x['Date']) on a list of row indices
RECURSIVE InsertIndexByDate(_, _, _)
InsertIndexByDate(transactions, sorted, i) ==
    IF sorted = <<>> THEN <<i>>
    ELSE IF transactions[sorted[Len(sorted)]].Date <= transactions[i].Date
    THEN Append(sorted, i)
    ELSE Append(InsertIndexByDate(transactions, SubSeq(sorted, 1, Len(sorted) - 1), i),
                sorted[Len(sorted)])

RECURSIVE SortIndicesByDate(_, _)
SortIndicesByDate(transactions, trades) ==
    IF trades = <<>> THEN <<>>
    ELSE InsertIndexByDate(transactions,
                           SortIndicesByDate(transactions,
                                             SubSeq(trades, 1, Len(trades) - 1)),
                           trades[Len(trades)])

\* The local variable row of generate_kdvp: unbound until line 174 or 180
\* binds it, then the element created last, in Pridobitve ("P") or Odsvojitve.
Unbound == [bound |-> FALSE, list |-> "P", at |-> 0]
Bound(list, at) == [bound |-> TRUE, list |-> list, at |-> at]

\* the element row is bound to
RowElement(lists, row) ==
    IF row.list = "P" THEN lists.P[row.at] ELSE lists.O[row.at]

\* the lists, the element row is bound to having the children given
WithChildren(lists, row, children) ==
    IF row.list = "P" THEN [lists EXCEPT !.P[row.at].children = children]
    ELSE [lists EXCEPT !.O[row.at].children = children]

\* line 166 after line 165 returned qty: qty_ok and val_ok, and the
\* children of row
AddValue(qty, t) ==
    [qty_ok |-> qty.ok,
     val |-> add_decimal_el(qty.children, "NabavnaVrednost", t.TotalValueEUR, 4,
                            FALSE, FALSE)]

\* lines 165-166 on a bound row: Kolicina and NabavnaVrednost are appended to the
\* element created by the previous iteration
AddBoth(old, t) ==
    AddValue(add_decimal_el(old.children, "Kolicina", t.Quantity, 4, FALSE, FALSE), t)

Added(lists, row, both) ==
    [ok |-> both.qty_ok /\ both.val.ok,
     lists |-> WithChildren(lists, row, both.val.children)]

AddToRow(lists, row, t) == Added(lists, row, AddBoth(RowElement(lists, row), t))

\* lines 173-184: the element of a trade
Pridobitev(t, src) ==
    Node("Pridobitev",
         <<El("DatumPridobitve", t.Date),
           El("Kolicina", format_decimal(t.Quantity, 4, FALSE)),
           El("NabavnaVrednost", format_decimal(t.TotalValueEUR, 4, FALSE)),
           El("NacinPridobitve", "A")>>, src)

Odsvojitev(t, src) ==
    Node("Odsvojitev",
         <<El("DatumOdsvojitve", t.Date),
           El("Kolicina", format_decimal(t.Quantity, 4, FALSE)),
           El("VrednostObOdsvojitvi", format_decimal(t.TotalValueEUR, 4, FALSE)),
           El("NacinOdsvojitve", "A")>>, src)

\* lines 168-184: the state after the body of the loop for trade t, read at
\* index src, once lines 165-166 added to the bound row
TradeStep(t, src, row, added) ==
    IF ~added.ok
    THEN \* lines 168-171: the trade is skipped, row stays
         [raised |-> FALSE, row |-> row, lists |-> added.lists]
    ELSE IF t.Type = "BUY"
    THEN [raised |-> FALSE, row |-> Bound("P", Len(added.lists.P) + 1),
          lists |-> [added.lists EXCEPT !.P = Append(@, Pridobitev(t, src))]]
    ELSE [raised |-> FALSE, row |-> Bound("O", Len(added.lists.O) + 1),
          lists |-> [added.lists EXCEPT !.O = Append(@, Odsvojitev(t, src))]]

\* lines 165-184: the body of the loop for trade t. Line 165 reads row: while
\* nothing has bound it, Python raises UnboundLocalError.
TradeBody(t, src, st) ==
    IF ~st.row.bound THEN [st EXCEPT !.raised = TRUE]
    ELSE TradeStep(t, src, st.row, AddToRow(st.lists, st.row, t))

\* lines 163-184: the loop over the sorted trades of a group, from the state
\* st = [raised, row, lists]
RECURSIVE TradeLoop(_, _, _)
TradeLoop(transactions, trades, st) ==
    IF trades = <<>> \/ st.raised THEN st
    ELSE TradeLoop(transactions, Tail(trades),
                   TradeBody(transactions[Head(trades)], Head(trades), st))

\* next((t[field] for t in trades if t[field]), ticker), for Name
FirstName(transactions, trades, ticker) ==
    LET named == SelectSeq(trades, LAMBDA i : transactions[i].Name # "")
    IN  IF named = <<>> THEN ticker ELSE transactions[Head(named)].Name

\* the same for ISIN: the text and whether it is the ticker
FirstIsin(transactions, trades, ticker) ==
    LET with == SelectSeq(trades, LAMBDA i : transactions[i].ISIN # <<>>)
    IN  IF with = <<>> THEN [isin |-> <<>>, ticker |-> ticker]
        ELSE [isin |-> transactions[Head(with)].ISIN, ticker |-> ""]

KDVPItem(ticker, name, isin, lists) ==
    [ticker |-> ticker, Naziv |-> name, Isin |-> isin,
     Pridobitve |-> lists.P, Odsvojitve |-> lists.O]

\* lines 149-184: the item of a group that passed the filter, added to the
\* envelope; done is the state its loop over the trades ended in
GroupItem(transactions, ticker, trades, items, done) ==
    [raised |-> done.raised, row |-> done.row,
     items |-> Append(items, KDVPItem(ticker,
                                      FirstName(transactions, trades, ticker),
                                      FirstIsin(transactions, trades, ticker),
                                      done.lists))]

\* lines 146-184: one group with its trades: skipped by the filter, or its item
\* built
GroupBody(transactions, ticker, trades, st) ==
    IF ~HasSellInYear(transactions, trades) THEN st
    ELSE GroupItem(transactions, ticker, trades, st.items,
                   TradeLoop(transactions, SortIndicesByDate(transactions, trades),
                             [raised |-> FALSE, row |-> st.row,
                              lists |-> [P |-> <<>>, O |-> <<>>]]))

GroupStep(transactions, ticker, st) ==
    GroupBody(transactions, ticker, TradesOf(transactions, ticker), st)

\* lines 144-184: the loop over the groups, from the state st = [raised, row,
\* items]; row lives across the groups
RECURSIVE GroupLoop(_, _, _)
GroupLoop(transactions, keys, st) ==
    IF keys = <<>> \/ st.raised THEN st
    ELSE GroupLoop(transactions, Tail(keys),
                   GroupStep(transactions, Head(keys), st))

\* lines 113-187: the KDVP body generate_kdvp built, and whether it raised
generate_kdvp(transactions) ==
    GroupLoop(transactions, GroupKeys(transactions, {}),
              [raised |-> FALSE, row |-> Unbound, items |-> <<>>])

\* ----------------------------------------------------------- generate_div
C_US == <<"U","S">>
I_UNKNOWN == <<"U","N","K","N","O","W","N">>

\* script_core_1.py, get_country_from_isin: the first two characters in
\* upper case, alphabetic or not, and US for an ISIN shorter than two
get_country_from_isin(isin) ==
    IF isin # <<>> /\ Len(isin) >= 2 THEN Upper(Prefix(isin, 2)) ELSE C_US

\* lines 244-246: "UNKNOWN" stands in for an absent ISIN, and the country is
\* the upper-cased first two characters, or US
country_code(isin_cell) ==
    LET isin == IF isin_cell # <<>> THEN isin_cell ELSE I_UNKNOWN
    IN  IF Len(isin) >= 2 /\ IsAlpha(Prefix(isin, 2))
        THEN Upper(Prefix(isin, 2)) ELSE C_US

\* lines 236-237, the test on the value left out
DivValueOkAlways(value_str) == TRUE

\* lines 236-237: the record is built when float(value_str) > 0
DivValueOk(value_str) == ~value_str.none /\ DecPositive(value_str)

\* lines 227-228: the DIV rows of the year, sorted by date (row indices)
DivRows(transactions) ==
    SortIndicesByDate(transactions,
        SelectSeq([i \in DOMAIN transactions |-> i],
                  LAMBDA i : transactions[i].Type = "DIV" /\ InTaxYear(transactions[i])))

\* lines 241-269: the Dividend element of a row
Dividend(t, src) ==
    LET value_str == format_decimal(t.TotalValueEUR, 2, FALSE)
        tax_str == format_decimal(t.TaxPaidEUR, 2, FALSE)
        payer_country == country_code(t.ISIN)
    IN  Node("Dividend",
             <<El("Date", t.Date),
               El("PayerIdentificationNumber", "00000000"),
               El("PayerName", IF t.Name # "" THEN t.Name ELSE "Unknown"),
               El("PayerAddress", "Unknown Address"),
               El("PayerCountry", payer_country),
               El("Type", "1"),
               El("Value", value_str),
               El("ForeignTax", tax_str),
               El("SourceCountry", payer_country)>>, src)

\* lines 230-269: the loop over the rows
RECURSIVE DivLoop(_, _)
DivLoop(transactions, divs) ==
    IF divs = <<>> THEN <<>>
    ELSE LET t == transactions[Head(divs)]
             rest == DivLoop(transactions, Tail(divs))
         IN  IF DivValueOk(format_decimal(t.TotalValueEUR, 2, FALSE))
             THEN <<Dividend(t, Head(divs))>> \o rest
             ELSE rest

generate_div(transactions) == DivLoop(transactions, DivRows(transactions))

\* ----------------------------------------------------------- generate_obr
C_LT == <<"L","T">>
C_GB == <<"G","B">>

\* lines 315-335: the ObrestiItem of a row, or nothing. format_decimal is
\* called without require_nonzero, so znesek_str is never None.
ObrestiItem(t, src) ==
    LET znesek_str == format_decimal(t.TotalValueEUR, 2, FALSE)
        code == IF t.Source = "Revolut" THEN "1" ELSE "3"
        country == IF t.Source = "Revolut" THEN C_LT ELSE C_GB
        tuj_str == format_decimal(t.TaxPaidEUR, 2, FALSE)
    IN  IF znesek_str.none THEN <<>>
        ELSE <<Node("ObrestiItem",
                    <<El("DatumPrejetja", t.Date),
                      El("VrstaObresti", code),
                      El("Opis", <<t.Source, " Interest">>),
                      El("Znesek", format_decimal(t.TotalValueEUR, 2, FALSE)),
                      El("Drzava", country),
                      El("TujDavek", format_decimal(t.TaxPaidEUR, 2, FALSE))>>
                    \o (IF ~tuj_str.none /\ ~DecZero(tuj_str)
                        THEN <<El("TujDavek", tuj_str), El("DrzavaVir", country)>>
                        ELSE <<>>),
                    src)>>

RECURSIVE ObrLoop(_, _)
ObrLoop(transactions, items) ==
    IF items = <<>> THEN <<>>
    ELSE ObrestiItem(transactions[Head(items)], Head(items))
         \o ObrLoop(transactions, Tail(items))

\* lines 313-337
generate_obr(transactions) ==
    ObrLoop(transactions,
            SelectSeq([i \in DOMAIN transactions |-> i],
                      LAMBDA i : /\ transactions[i].Type \in {"INTEREST", "LENDING"}
                                 /\ InTaxYear(transactions[i])))

\* ------------------------------------------------------ the ledgers read
I_us1 == <<"u","s","1","2">>
I_1X == <<"1","X","9">>
I_D == <<"D">>

LedgerRow(source, date, type, ticker, isin, qty, value, tax) ==
    [Source |-> source, Date |-> date, Type |-> type, Ticker |-> ticker,
     ISIN |-> isin, Name |-> ticker, Quantity |-> qty, TotalValueEUR |-> value,
     TaxPaidEUR |-> tax]

\* Rows of a master ledger: trades of two tickers in and out of the tax year,
\* dividends whose value rounds to zero, to a cent, is negative or is empty, with
\* identifiers present, absent, short and non-alphabetic, and interest with a
\* tax that is zero, below half a cent, above it, or empty.
LedgerRows ==
    { LedgerRow("T212", -5, "BUY", "AAA", I_US1, Num(100000), Num(300000), Num(0)),
      LedgerRow("T212", 10, "SELL", "AAA", I_US1, Num(100000), Num(320000), Num(0)),
      LedgerRow("Revolut", -5, "SELL", "BBB", <<>>, Num(100000), Num(500000), Num(0)),
      LedgerRow("Revolut", 10, "BUY", "BBB", <<>>, Num(4), Num(250000), Num(0)),
      LedgerRow("Revolut", 20, "SELL", "BBB", <<>>, Num(100000), Num(4), Num(0)),
      LedgerRow("T212", 10, "DIV", "AAA", I_us1, Num(0), Num(100000), Num(15000)),
      LedgerRow("T212", 10, "DIV", "AAA", I_DE2, Num(0), Num(400), Num(0)),
      LedgerRow("Revolut", 10, "DIV", "AAA", <<>>, Num(0), Num(600), Num(0)),
      LedgerRow("T212", 10, "DIV", "BBB", I_US1, Num(0), Num(-400), Num(0)),
      LedgerRow("T212", 10, "DIV", "BBB", I_1X, Num(0), Num(-100000), Num(0)),
      LedgerRow("T212", -5, "DIV", "AAA", I_US1, Num(0), Num(100000), Num(0)),
      LedgerRow("T212", 10, "DIV", "BBB", I_D, Num(0), EmptyCell, EmptyCell),
      LedgerRow("Revolut", 10, "INTEREST", "", <<>>, EmptyCell, Num(300000), Num(0)),
      LedgerRow("T212", 10, "LENDING", "", <<>>, EmptyCell, Num(400), Num(50000)),
      LedgerRow("T212", -5, "INTEREST", "", <<>>, EmptyCell, Num(300000), Num(0)),
      LedgerRow("T212", 10, "INTEREST", "", <<>>, EmptyCell, Num(200000), Num(300)),
      LedgerRow("Revolut", 20, "INTEREST", "", <<>>, EmptyCell, Num(300000), EmptyCell) }

\* ------------------------------------------------------ generate_xmls.main
\* the document generate_kdvp returned, or the exception it raised
KdvpDoc(out) == [built |-> TRUE, raised |-> out.raised, items |-> out.items]

\* lines 345-348: csv.DictReader yields one more row of master_data.csv, which
\* prepare_all_preprocess wrote sorted by date
ReadLedgerRow ==
    /\ gpc = "read"
    /\ Len(data) < MaxLedger
    /\ \E row \in LedgerRows :
           /\ IF data = <<>> THEN TRUE ELSE data[Len(data)].Date <= row.Date
           /\ data' = Append(data, row)
    /\ UNCHANGED <<gpc, kdvp_doc, div_doc, obr_doc, files, clean_doc>>
    /\ UNCHANGED prep_vars

\* lines 351-352: generate_kdvp(data); when it raises, main ends there, with
\* Doh-KDVP.xml opened and empty
WriteKdvp ==
    /\ gpc = "read"
    /\ kdvp_doc' = KdvpDoc(generate_kdvp(data))
    /\ gpc' = IF kdvp_doc'.raised THEN "crashed" ELSE "div"
    /\ files' = IF kdvp_doc'.raised THEN files ELSE files \cup {"Doh-KDVP.xml"}
    /\ UNCHANGED <<data, div_doc, obr_doc, clean_doc>>
    /\ UNCHANGED prep_vars

\* lines 353-354
WriteDiv ==
    /\ gpc = "div"
    /\ div_doc' = [built |-> TRUE, raised |-> FALSE, items |-> generate_div(data)]
    /\ files' = files \cup {"Doh-Div.xml"}
    /\ gpc' = "obr"
    /\ UNCHANGED <<data, kdvp_doc, obr_doc, clean_doc>>
    /\ UNCHANGED prep_vars

\* lines 355-356
WriteObr ==
    /\ gpc = "obr"
    /\ obr_doc' = [built |-> TRUE, raised |-> FALSE, items |-> generate_obr(data)]
    /\ files' = files \cup {"Doh-Obr.xml"}
    /\ gpc' = "done"
    /\ UNCHANGED <<data, kdvp_doc, div_doc, clean_doc>>
    /\ UNCHANGED prep_vars

\* ------------------------------------------------------- post_div_clean
\* generate_div lines 200-269: the children of the body element of
\* Doh-Div.xml. The Dividend elements are children of Doh_Div.
DivBody(dividends) ==
    <<Node("bodyContent", <<>>, 0), Node("Doh_Div", dividends, 0)>>

\* elem.findall(tag): the children of the element with the tag
FindAll(children, tag) == SelectSeq(children, LAMBDA c : c.tag = tag)

\* post_div_clean lines 33-64; the text of Value is a formatted decimal, so
\* float() does not raise on it
is_valid_dividend(div_elem) ==
    IF FindAll(div_elem.children, "Value") = <<>>
    THEN "Value is missing"
    ELSE IF Head(FindAll(div_elem.children, "Value")).text.none
    THEN "Value is missing"
    ELSE IF ~DecPositive(Head(FindAll(div_elem.children, "Value")).text)
    THEN "Value <= 0"
    ELSE IF FindAll(div_elem.children, "PayerCountry") = <<>>
    THEN "PayerCountry is missing or empty"
    ELSE IF Strip(Head(FindAll(div_elem.children, "PayerCountry")).text) = <<>>
    THEN "PayerCountry is missing or empty"
    ELSE IF FindAll(div_elem.children, "SourceCountry") = <<>>
    THEN "SourceCountry is missing or empty"
    ELSE IF Strip(Head(FindAll(div_elem.children, "SourceCountry")).text) = <<>>
    THEN "SourceCountry is missing or empty"
    ELSE "OK"

\* post_div_clean lines 85-128: the Dividend children of body (line 98) that
\* are not valid are removed from body and counted
clean_dividend_xml(body) ==
    [written |-> TRUE,
     removed_count |->
         Len(SelectSeq(FindAll(body, "Dividend"),
                       LAMBDA d : is_valid_dividend(d) # "OK")),
     body |-> SelectSeq(body, LAMBDA c : c.tag = "Dividend"
                                             => is_valid_dividend(c) = "OK")]

\* post_div_clean.main, run on the Doh-Div.xml generate_xmls.main wrote
CleanDividendXml ==
    /\ "Doh-Div.xml" \in files
    /\ ~clean_doc.written
    /\ clean_doc' = clean_dividend_xml(DivBody(div_doc.items))
    /\ UNCHANGED <<gpc, data, kdvp_doc, div_doc, obr_doc, files>>
    /\ UNCHANGED prep_vars

InitGen ==
    /\ pc = "off"
    /\ PrepIdle
    /\ gpc = "read"
    /\ GenIdle

NextGen == ReadLedgerRow \/ WriteKdvp \/ WriteDiv \/ WriteObr \/ CleanDividendXml

SpecGen == InitGen /\ [][NextGen]_vars

\* ------------------------------------------------ generate_tax_report_v2
\* lines 30-34: f"{float(value):.{precision}f}", and zero for a value that is
\* not a number
format_decimal_v2(value, precision) ==
    Dec(FloatOrZero(value) < 0, RoundTo(Magnitude(FloatOrZero(value)), precision),
        precision)

\* lines 77-89: the lists after the element of trade t, read at index src
TradeStepV2(lists, t, src) ==
    IF t.Type = "BUY"
    THEN [lists EXCEPT !.P = Append(@,
             Node("Pridobitev",
                  <<El("DatumPridobitve", t.Date),
                    El("Kolicina", format_decimal_v2(t.Quantity, 4)),
                    El("NabavnaVrednost", format_decimal_v2(t.TotalValueEUR, 4)),
                    El("NacinPridobitve", "A")>>, src))]
    ELSE [lists EXCEPT !.O = Append(@,
             Node("Odsvojitev",
                  <<El("DatumOdsvojitve", t.Date),
                    El("Kolicina", format_decimal_v2(t.Quantity, 4)),
                    El("VrednostObOdsvojitvi", format_decimal_v2(t.TotalValueEUR, 4)),
                    El("NacinOdsvojitve", "A")>>, src))]

\* lines 76-89: the loop over the sorted trades of a group
RECURSIVE TradeLoopV2(_, _, _)
TradeLoopV2(transactions, trades, lists) ==
    IF trades = <<>> THEN lists
    ELSE TradeLoopV2(transactions, Tail(trades),
                     TradeStepV2(lists, transactions[Head(trades)], Head(trades)))

\* lines 63-89: the item of a group that passed the filter; Naziv and Isin are
\* those of the first row of the group as read
ItemV2(transactions, ticker, trades) ==
    KDVPItem(ticker, transactions[Head(trades)].Name,
             IF transactions[Head(trades)].ISIN # <<>>
             THEN [isin |-> transactions[Head(trades)].ISIN, ticker |-> ""]
             ELSE [isin |-> <<>>, ticker |-> ticker],
             TradeLoopV2(transactions, SortIndicesByDate(transactions, trades),
                         [P |-> <<>>, O |-> <<>>]))

\* lines 59-89: the loop over the groups
RECURSIVE GroupLoopV2(_, _, _)
GroupLoopV2(transactions, keys, items) ==
    IF keys = <<>> THEN items
    ELSE GroupLoopV2(transactions, Tail(keys),
             IF HasSellInYear(transactions, TradesOf(transactions, Head(keys)))
             THEN Append(items, ItemV2(transactions, Head(keys),
                                       TradesOf(transactions, Head(keys))))
             ELSE items)

\* lines 44-91
generate_kdvp_v2(transactions) ==
    [raised |-> FALSE,
     items |-> GroupLoopV2(transactions, GroupKeys(transactions, {}), <<>>)]

\* generate_tax_report_v2.main, lines 150-151
WriteKdvpV2 ==
    /\ gpc = "read"
    /\ kdvp_doc' = KdvpDoc(generate_kdvp_v2(data))
    /\ files' = files \cup {"Doh-KDVP.xml"}
    /\ gpc' = "v2"
    /\ UNCHANGED <<data, div_doc, obr_doc, clean_doc>>
    /\ UNCHANGED prep_vars

\* lines 111-136: the ObrestiItem of row t, read at index src
ObrestiItemV2(t, src) ==
    Node("ObrestiItem",
         <<El("DatumPrejetja", t.Date),
           El("VrstaObresti", IF t.Source = "Revolut" THEN "1" ELSE "3"),
           El("Opis", t.Name),
           El("Znesek", format_decimal_v2(t.TotalValueEUR, 2)),
           El("Drzava", IF t.Source = "Revolut" THEN C_LT ELSE C_GB),
           El("TujDavek", format_decimal_v2(t.TaxPaidEUR, 2))>>
         \o (IF t.TaxPaidEUR.v > 0
             THEN <<El("DrzavaVir", IF t.Source = "Revolut" THEN C_LT ELSE C_GB)>>
             ELSE <<>>),
         src)

\* lines 111-136: the loop over the interest rows; float(t['TaxPaidEUR']) of
\* line 133 raises ValueError on an empty cell
RECURSIVE InterestLoopV2(_, _, _)
InterestLoopV2(transactions, int_items, out) ==
    IF int_items = <<>> THEN out
    ELSE IF ~transactions[Head(int_items)].TaxPaidEUR.num
    THEN [raised |-> TRUE, items |-> <<>>]
    ELSE InterestLoopV2(transactions, Tail(int_items),
             [out EXCEPT !.items =
                 Append(@, ObrestiItemV2(transactions[Head(int_items)],
                                         Head(int_items)))])

\* lines 95-138
generate_interest(transactions) ==
    InterestLoopV2(transactions,
                   SelectSeq([i \in DOMAIN transactions |-> i],
                             LAMBDA i : /\ transactions[i].Type \in {"INTEREST", "LENDING"}
                                        /\ InTaxYear(transactions[i])),
                   [raised |-> FALSE, items |-> <<>>])

\* generate_tax_report_v2.main, lines 157-158: Doh-Obr.xml is opened, then
\* generate_interest builds the document or raises
WriteObrV2 ==
    /\ gpc = "v2"
    /\ obr_doc' = [built |-> ~generate_interest(data).raised,
                   raised |-> generate_interest(data).raised,
                   items |-> generate_interest(data).items]
    /\ files' = files \cup {"Doh-Obr.xml"}
    /\ gpc' = IF generate_interest(data).raised THEN "crashed" ELSE "done"
    /\ UNCHANGED <<data, kdvp_doc, div_doc, clean_doc>>
    /\ UNCHANGED prep_vars

\* generate_tax_report_v2.main reads the ledger as generate_xmls.main does
\* (lines 144-147) and writes the KDVP document and the interest document
NextV2 == ReadLedgerRow \/ WriteKdvpV2 \/ WriteObrV2

SpecV2 == InitGen /\ [][NextV2]_vars

\* ---------------------------------------------------------- properties
Resolved == pc = "done"

\* the input row a ledger row was built from
InputOf(r) == IF r.Source = "Revolut" THEN revolut_csv[r.Row + 1] ELSE t212_csv[r.Row + 1]

HasAuditRecord(r) ==
    \E i \in DOMAIN audit_log :
        /\ audit_log[i].Source = r.Source
        /\ audit_log[i].Date = r.Date
        /\ audit_log[i].Curr = InputOf(r).Currency
        /\ audit_log[i].FinalEUR = r.TotalValueEUR

HasSkipRecord(r) ==
    \E i \in DOMAIN skipped_log :
        skipped_log[i].Source = r.Source /\ skipped_log[i].Row = r.Row

\* C2: every ledger row whose native currency is not EUR has a conversion
\* record in the audit log, or was kept with its native amount and has an entry
\* in the skip log; no non-EUR row is in the ledger with neither.
C2_ConvertedOrFlagged ==
    \A i \in DOMAIN all_rows :
        (all_rows[i].Source = "Revolut" /\ InputOf(all_rows[i]).Currency # "EUR")
            => (HasAuditRecord(all_rows[i]) \/ HasSkipRecord(all_rows[i]))

\* the T212 input rows that became ledger rows
T212Accepted == {i \in DOMAIN t212_csv : T212Row(i - 1, t212_csv[i]).kind = "row"}

\* the non-empty identifiers the input rows of a ticker carried
Carried(ticker) ==
    {clean_isin(t212_csv[i].ISIN) : i \in
        {j \in DOMAIN t212_csv : /\ OrElse(t212_csv[j].Ticker, "CASH") = ticker
                                 /\ clean_isin(t212_csv[j].ISIN) # <<>>
                                 /\ j \in T212Accepted}}

\* the identifier a ledger row came with
OwnIsin(r) == IF r.Source = "Revolut" THEN <<>> ELSE clean_isin(InputOf(r).ISIN)

\* the identifier carried by the last input row of the ticker that carried one
LastCarried(ticker) ==
    LET js == {j \in DOMAIN t212_csv : /\ OrElse(t212_csv[j].Ticker, "CASH") = ticker
                                       /\ clean_isin(t212_csv[j].ISIN) # <<>>
                                       /\ j \in T212Accepted}
        last == CHOOSE j \in js : \A k \in js : k <= j
    IN  clean_isin(t212_csv[last].ISIN)

C4_OneLookupPerTicker ==
    \A i, j \in DOMAIN isin_calls :
        isin_calls[i].ticker = isin_calls[j].ticker => i = j

\* two trades of one ticker came without an identifier, the lookup failed, and
\* the run ended with one call
C4_Witness ==
    /\ Resolved
    /\ \E i, j \in DOMAIN all_rows :
          /\ i # j
          /\ all_rows[i].Ticker = all_rows[j].Ticker
          /\ IsTrade(all_rows[i]) /\ IsTrade(all_rows[j])
          /\ all_rows[i].ISIN = <<>> /\ all_rows[j].ISIN = <<>>
          /\ Len(isin_calls) = 1
          /\ isin_calls[1].ticker = all_rows[i].Ticker

\* the tickers whose lookup failed
FailedTickers == {isin_calls[i].ticker : i \in {j \in DOMAIN isin_calls :
                                                    isin_calls[j].found = <<>>}}

IsinCheckRecords(ticker) ==
    {i \in DOMAIN skipped_log : /\ skipped_log[i].Source = "ISIN_CHECK"
                                /\ skipped_log[i].RawData = ticker}

\* C5: when find_isin_online fails for a ticker, exactly one ISIN_CHECK record
\* for the ticker is in the skip log, every row of the ticker that had no
\* identifier still has none at the end of the run, and the master ledger is
\* written with all rows.
C5_FailedLookup ==
    \A t \in FailedTickers :
        /\ Cardinality(IsinCheckRecords(t)) = 1
        /\ pc \in {"resolve", "done"}
        /\ \A i \in DOMAIN all_rows :
              (all_rows[i].Ticker = t /\ OwnIsin(all_rows[i]) = <<>>)
                  => all_rows[i].ISIN = <<>>
        /\ Resolved =>
              /\ master_file.written
              /\ Len(master_file.rows) = Len(all_rows)
              /\ Len(all_rows) = Len(revolut_csv) + Len(t212_csv)
                                   - Cardinality({i \in DOMAIN skipped_log :
                                         skipped_log[i].Source # "ISIN_CHECK"})
              /\ \A i \in DOMAIN master_file.rows :
                    master_file.rows[i].Ticker = t => master_file.rows[i].ISIN = <<>>

\* a lookup failed and the run ended with the ledger written
C5_Witness ==
    /\ Resolved
    /\ FailedTickers # {}
    /\ master_file.written
    /\ \E i \in DOMAIN master_file.rows :
          /\ master_file.rows[i].Ticker \in FailedTickers
          /\ master_file.rows[i].ISIN = <<>>

\* ------------------------------------------- properties of generate_xmls
\* the items of the document generate_kdvp returned: it returns none when it
\* raises
KdvpItems == IF kdvp_doc.raised THEN <<>> ELSE kdvp_doc.items

Tickers == {data[i].Ticker : i \in DOMAIN data}

\* the BUY and SELL rows of a ticker in the ledger read, and its SELL rows
\* dated in TAX_YEAR
TradeRows(ticker) ==
    {i \in DOMAIN data : data[i].Type \in {"BUY", "SELL"} /\ data[i].Ticker = ticker}

SellsInYear(ticker) ==
    {i \in TradeRows(ticker) : data[i].Type = "SELL" /\ InTaxYear(data[i])}

ItemsOf(ticker) == {k \in DOMAIN KdvpItems : KdvpItems[k].ticker = ticker}

\* the ledger rows the elements of a list were built from
ElementRows(elements) == {elements[e].src : e \in DOMAIN elements}

\* the number of children of an element with a tag, and the text of one
CountTag(node, tag) ==
    Cardinality({c \in DOMAIN node.children : node.children[c].tag = tag})

ChildText(node, tag) ==
    node.children[CHOOSE c \in DOMAIN node.children : node.children[c].tag = tag].text

\* C6: generate_kdvp emits a KDVPItem for a ticker if and only if a SELL row of
\* the ticker is dated in TAX_YEAR, and the item of an included ticker lists all
\* the BUY and SELL rows of the ticker, those dated outside TAX_YEAR too.
C6_ItemIffSellInYear ==
    kdvp_doc.built =>
        \A ticker \in Tickers :
            /\ ItemsOf(ticker) # {} <=> SellsInYear(ticker) # {}
            /\ \A k \in ItemsOf(ticker) :
                  ElementRows(KdvpItems[k].Pridobitve)
                      \cup ElementRows(KdvpItems[k].Odsvojitve) = TradeRows(ticker)

\* the Pridobitev and the Odsvojitev elements of the document built from row i
PridobitveOf(i) ==
    {<<k, e>> \in (DOMAIN KdvpItems) \X (1..MaxLedger) :
        /\ e \in DOMAIN KdvpItems[k].Pridobitve
        /\ KdvpItems[k].Pridobitve[e].src = i}

OdsvojitveOf(i) ==
    {<<k, e>> \in (DOMAIN KdvpItems) \X (1..MaxLedger) :
        /\ e \in DOMAIN KdvpItems[k].Odsvojitve
        /\ KdvpItems[k].Odsvojitve[e].src = i}

\* C7: for every included ticker, generate_kdvp emits exactly one Pridobitev per
\* BUY row and exactly one Odsvojitev per SELL row, each with exactly one
\* Kolicina and exactly one value element.
C7_OneElementPerTrade ==
    kdvp_doc.built =>
        \A ticker \in Tickers : SellsInYear(ticker) # {} =>
            \A i \in TradeRows(ticker) :
                /\ Cardinality(PridobitveOf(i)) = IF data[i].Type = "BUY" THEN 1 ELSE 0
                /\ Cardinality(OdsvojitveOf(i)) = IF data[i].Type = "SELL" THEN 1 ELSE 0
                /\ \A ke \in PridobitveOf(i) :
                      /\ CountTag(KdvpItems[ke[1]].Pridobitve[ke[2]], "Kolicina") = 1
                      /\ CountTag(KdvpItems[ke[1]].Pridobitve[ke[2]], "NabavnaVrednost") = 1
                /\ \A ke \in OdsvojitveOf(i) :
                      /\ CountTag(KdvpItems[ke[1]].Odsvojitve[ke[2]], "Kolicina") = 1
                      /\ CountTag(KdvpItems[ke[1]].Odsvojitve[ke[2]],
                                  "VrednostObOdsvojitvi") = 1

\* C8: generate_xmls.main never halts before a later document is written, and
\* when it ends it has written the three documents.
C8_MainWritesAll ==
    /\ gpc # "crashed"
    /\ gpc = "done" => files = {"Doh-KDVP.xml", "Doh-Div.xml", "Doh-Obr.xml"}

\* a value that rounded to two decimals is strictly greater than zero: more
\* than half a cent
RoundsAboveZero(cell) == cell.num /\ cell.v > 500

RecordsOf(i) == {k \in DOMAIN div_doc.items : div_doc.items[k].src = i}

\* C9: the dividend document holds a Dividend record for exactly the DIV rows
\* dated in TAX_YEAR whose value rounded to 2 decimals is strictly greater than
\* zero, and no record has Value 0.00 or a negative Value.
C9_DividendRecords ==
    div_doc.built =>
        /\ \A i \in DOMAIN data :
              Cardinality(RecordsOf(i)) =
                  IF /\ data[i].Type = "DIV"
                     /\ InTaxYear(data[i])
                     /\ RoundsAboveZero(data[i].TotalValueEUR)
                  THEN 1 ELSE 0
        /\ \A k \in DOMAIN div_doc.items :
              /\ div_doc.items[k].src \in DOMAIN data
              /\ ~ChildText(div_doc.items[k], "Value").neg
              /\ ChildText(div_doc.items[k], "Value").n > 0

\* a document with a record, built from a ledger that also has a dividend of
\* the year rounding to 0.00 and a negative one
C9_Witness ==
    /\ div_doc.built
    /\ div_doc.items # <<>>
    /\ \E i, j \in DOMAIN data :
          /\ data[i].Type = "DIV" /\ InTaxYear(data[i])
          /\ data[i].TotalValueEUR.num
          /\ data[i].TotalValueEUR.v > 0 /\ data[i].TotalValueEUR.v < 500
          /\ data[j].Type = "DIV" /\ InTaxYear(data[j])
          /\ data[j].TotalValueEUR.num /\ data[j].TotalValueEUR.v < 0

\* the country code of an identifier: its first two characters in upper case
\* when it is present and they are alphabetic, and US when it is absent or
\* they are not
CountryOfIsin(isin_cell) ==
    IF isin_cell # <<>> /\ Len(isin_cell) >= 2 /\ IsAlpha(Prefix(isin_cell, 2))
    THEN Upper(Prefix(isin_cell, 2)) ELSE C_US

\* C10: the country code of every emitted dividend record is the upper-cased
\* first two characters of the identifier of its row when the identifier is
\* present and they are alphabetic, and US when the identifier is absent or they
\* are not alphabetic.
C10_CountryCode ==
    div_doc.built =>
        \A k \in DOMAIN div_doc.items :
            /\ ChildText(div_doc.items[k], "PayerCountry")
                  = CountryOfIsin(data[div_doc.items[k].src].ISIN)
            /\ ChildText(div_doc.items[k], "SourceCountry")
                  = CountryOfIsin(data[div_doc.items[k].src].ISIN)

\* a value that rounded to two decimals is not zero: more than half a cent
\* either way
RoundsNonZero(cell) == cell.num /\ (cell.v > 500 \/ cell.v < -500)

ObrItemsOf(i) == {k \in DOMAIN obr_doc.items : obr_doc.items[k].src = i}

\* C11: the interest document holds an ObrestiItem for exactly the INTEREST and
\* LENDING rows dated in TAX_YEAR whose value rounded to 2 decimals is not
\* zero, and no ObrestiItem has Znesek 0.00.
C11_InterestRecords ==
    obr_doc.built =>
        /\ \A i \in DOMAIN data :
              Cardinality(ObrItemsOf(i)) =
                  IF /\ data[i].Type \in {"INTEREST", "LENDING"}
                     /\ InTaxYear(data[i])
                     /\ RoundsNonZero(data[i].TotalValueEUR)
                  THEN 1 ELSE 0
        /\ \A k \in DOMAIN obr_doc.items :
              ChildText(obr_doc.items[k], "Znesek").n # 0

\* the Pridobitev and Odsvojitev elements of the KDVP document
KdvpElements ==
    UNION {{KdvpItems[k].Pridobitve[e] : e \in DOMAIN KdvpItems[k].Pridobitve}
           \cup {KdvpItems[k].Odsvojitve[e] : e \in DOMAIN KdvpItems[k].Odsvojitve}
           : k \in DOMAIN KdvpItems}

\* C12: no Pridobitev or Odsvojitev of the capital-gains document carries a
\* quantity or a value that formats to 0.0000: a BUY or SELL row whose
\* quantity or value rounds to zero at 4 decimals yields no element.
C12_NoZeroTradeRecord ==
    kdvp_doc.built =>
        \A el \in KdvpElements :
            \A c \in DOMAIN el.children :
                el.children[c].tag \in {"Kolicina", "NabavnaVrednost",
                                        "VrednostObOdsvojitvi"}
                    => el.children[c].text.n # 0

\* the decimals a ledger row's value is filed with: 4 in the KDVP document,
\* 2 in the dividend and interest documents
FilingPrecision(type) == IF type \in {"BUY", "SELL"} THEN 4 ELSE 2

\* the value of a written ledger row, at the precision it is filed with
FiledValue(r) ==
    RoundTo(Magnitude(FloatOrZero(r.TotalValueEUR)), FilingPrecision(r.Type))

\* C13: no row whose EUR value rounds to zero at filing precision is in the
\* master ledger that was written.
C13_NoZeroValueRow ==
    master_file.written =>
        \A i \in DOMAIN master_file.rows : FiledValue(master_file.rows[i]) # 0

\* the skip records and the ledger rows of the input row at index row of source
SkipRecordsOf(source, row) ==
    {k \in DOMAIN skipped_log :
        skipped_log[k].Source = source /\ skipped_log[k].Row = row}
LedgerRowsOf(source, row) ==
    {k \in DOMAIN all_rows : all_rows[k].Source = source /\ all_rows[k].Row = row}

\* an adapter raised, and main ended before the resolution pass
AdapterRaised == pc = "crashed" /\ ri = 0

\* C14: an input row of any provider whose date does not parse yields no
\* ledger row and exactly one skip record, and the run goes on: an adapter
\* never raises on such a row.
C14_BadDateSkipped ==
    /\ \A i \in DOMAIN revolut_csv :
          ~revolut_csv[i].Date.ok =>
              /\ LedgerRowsOf("Revolut", i - 1) = {}
              /\ Cardinality(SkipRecordsOf("Revolut", i - 1)) = 1
              /\ (AdapterRaised /\ t212_csv = <<>>) => i # Len(revolut_csv)
    /\ \A i \in DOMAIN t212_csv :
          ~t212_csv[i].Time.ok =>
              /\ LedgerRowsOf("T212", i - 1) = {}
              /\ Cardinality(SkipRecordsOf("T212", i - 1)) = 1
              /\ AdapterRaised => i # Len(t212_csv)

\* C14 for the Revolut adapter alone
C14_RevolutBadDate ==
    \A i \in DOMAIN revolut_csv :
        ~revolut_csv[i].Date.ok =>
            /\ LedgerRowsOf("Revolut", i - 1) = {}
            /\ Cardinality(SkipRecordsOf("Revolut", i - 1)) = 1
            /\ (AdapterRaised /\ t212_csv = <<>>) => i # Len(revolut_csv)

\* C15 as stated: every row of the master ledger has one of the four kinds
\* BUY, SELL, DIV, INTEREST.
C15_FourKinds ==
    /\ \A i \in DOMAIN all_rows : all_rows[i].Type \in {"BUY", "SELL", "DIV", "INTEREST"}
    /\ \A i \in DOMAIN master_file.rows :
          master_file.rows[i].Type \in {"BUY", "SELL", "DIV", "INTEREST"}

\* C15 as the code has it: every row of the master ledger has one of the five
\* kinds BUY, SELL, DIV, INTEREST, LENDING; LENDING is the kind of the T212 rows
\* of share-lending interest, and no Revolut row has it.
C15_FiveKinds ==
    /\ \A i \in DOMAIN all_rows :
          /\ all_rows[i].Type \in {"BUY", "SELL", "DIV", "INTEREST", "LENDING"}
          /\ all_rows[i].Type = "LENDING" =>
                /\ all_rows[i].Source = "T212"
                /\ Contains(Lower(InputOf(all_rows[i]).Action),
                            <<"l","e","n","d","i","n","g">>)
    /\ \A i \in DOMAIN master_file.rows :
          master_file.rows[i].Type \in {"BUY", "SELL", "DIV", "INTEREST", "LENDING"}

\* a ledger was written with a LENDING row and a row of another kind
C15_Witness ==
    /\ Resolved
    /\ \E i, j \in DOMAIN master_file.rows :
          /\ master_file.rows[i].Type = "LENDING"
          /\ master_file.rows[j].Type \in {"BUY", "SELL", "DIV", "INTEREST"}

\* a float that is not below zero (NaN is not counted as negative)
NotNegative(f) == f.nan \/ f.v >= 0

\* C16: every ledger row produced by an adapter has Quantity >= 0,
\* TotalValueEUR >= 0 and TaxPaidEUR >= 0, whatever the input row.
C16_NoNegativeField ==
    \A i \in DOMAIN all_rows :
        /\ NotNegative(all_rows[i].Quantity)
        /\ NotNegative(all_rows[i].TotalValueEUR)
        /\ NotNegative(all_rows[i].TaxPaidEUR)

\* C16 for the value and the tax alone
C16_ValueAndTax ==
    \A i \in DOMAIN all_rows :
        NotNegative(all_rows[i].TotalValueEUR) /\ NotNegative(all_rows[i].TaxPaidEUR)

\* the kind the adapter gives an input row, "" when it gives none
KindOfRevolut(row) == RevolutTransType(Upper(row.Type), Upper(row.Description))
KindOfT212(row) == T212TransType(Lower(row.Action))

\* the cell holds no ticker: it is empty (NaN), or the empty text
NoTicker(text) == text = "" \/ text = NaNText

\* C17: a BUY, SELL or DIV input row that carries no ticker, from any
\* provider, yields no ledger row and one skip record; no BUY, SELL or DIV row
\* of the ledger has the ticker CASH.
C17_TradeNeedsTicker ==
    /\ \A i \in DOMAIN revolut_csv :
          (/\ KindOfRevolut(revolut_csv[i]) \in {"BUY", "SELL", "DIV"}
           /\ NoTicker(OrElse(revolut_csv[i].Ticker, revolut_csv[i].Symbol)))
              => /\ LedgerRowsOf("Revolut", i - 1) = {}
                 /\ Cardinality(SkipRecordsOf("Revolut", i - 1)) = 1
    /\ \A i \in DOMAIN t212_csv :
          (/\ KindOfT212(t212_csv[i]) \in {"BUY", "SELL", "DIV"}
           /\ t212_csv[i].Time.ok
           /\ NoTicker(t212_csv[i].Ticker))
              => /\ LedgerRowsOf("T212", i - 1) = {}
                 /\ Cardinality(SkipRecordsOf("T212", i - 1)) = 1
    /\ \A i \in DOMAIN all_rows :
          all_rows[i].Type \in {"BUY", "SELL", "DIV"} => all_rows[i].Ticker # "CASH"

\* C17 for the Revolut adapter alone
C17_RevolutNeedsTicker ==
    \A i \in DOMAIN revolut_csv :
        (/\ KindOfRevolut(revolut_csv[i]) \in {"BUY", "SELL", "DIV"}
         /\ NoTicker(OrElse(revolut_csv[i].Ticker, revolut_csv[i].Symbol)))
            => /\ LedgerRowsOf("Revolut", i - 1) = {}
               /\ Cardinality(SkipRecordsOf("Revolut", i - 1)) = 1

\* C18: every INTEREST ledger row whose input row carried no ticker has the
\* ticker CASH, for the Revolut and for the T212 adapter.
C18_InterestIsCash ==
    \A i \in DOMAIN all_rows :
        (/\ all_rows[i].Type = "INTEREST"
         /\ NoTicker(IF all_rows[i].Source = "Revolut"
                     THEN OrElse(InputOf(all_rows[i]).Ticker, InputOf(all_rows[i]).Symbol)
                     ELSE InputOf(all_rows[i]).Ticker))
            => all_rows[i].Ticker = "CASH"

\* the vocabulary of the Revolut adapter: the upper-cased Type is one of seven
\* words, or the upper-cased Description contains SAVINGS
RevolutRecognised(row) ==
    \/ Upper(row.Type) \in {<<"B","U","Y">>, <<"M","A","R","K","E","T"," ","B","U","Y">>,
                            <<"S","E","L","L">>, <<"M","A","R","K","E","T"," ","S","E","L","L">>,
                            <<"D","I","V","I","D","E","N","D">>, <<"D","I","V">>,
                            <<"I","N","T","E","R","E","S","T">>}
    \/ Contains(Upper(row.Description), <<"S","A","V","I","N","G","S">>)

\* the vocabulary of the T212 adapter: the lower-cased Action contains one of
\* five words
T212Recognised(row) ==
    \E word \in {<<"b","u","y">>, <<"s","e","l","l">>, <<"d","i","v","i","d","e","n","d">>,
                 <<"l","e","n","d","i","n","g">>, <<"i","n","t","e","r","e","s","t">>} :
        Contains(Lower(row.Action), word)

\* the rows of the exports that match none of the vocabulary
RevolutUnrecognised == {row \in RevolutRows : ~RevolutRecognised(row)}
T212Unrecognised == {row \in T212Rows : ~T212Recognised(row)}

\* C19: a Revolut or T212 input row whose type or action matches none of the
\* recognised vocabulary yields no ledger row and exactly one skip record, which
\* names the reason.
C19_UnrecognisedSkipped ==
    /\ \A i \in DOMAIN revolut_csv :
          revolut_csv[i] \in RevolutUnrecognised =>
              /\ LedgerRowsOf("Revolut", i - 1) = {}
              /\ Cardinality(SkipRecordsOf("Revolut", i - 1)) = 1
              /\ \A k \in SkipRecordsOf("Revolut", i - 1) :
                    skipped_log[k].Reason = "Type not relevant"
    /\ \A i \in DOMAIN t212_csv :
          t212_csv[i] \in T212Unrecognised =>
              /\ LedgerRowsOf("T212", i - 1) = {}
              /\ Cardinality(SkipRecordsOf("T212", i - 1)) = 1
              /\ \A k \in SkipRecordsOf("T212", i - 1) :
                    skipped_log[k].Reason = "Action skipped"

\* a run that read an unrecognised row of each provider and a row that entered
\* the ledger, and wrote the ledger
C19_Witness ==
    /\ Resolved
    /\ \E i \in DOMAIN revolut_csv : revolut_csv[i] \in RevolutUnrecognised
    /\ \E i \in DOMAIN t212_csv : t212_csv[i] \in T212Unrecognised
    /\ Len(skipped_log) >= 2

\* row a was ingested before row b: Revolut rows, then T212 rows, each in file
\* order (the IBKR adapter adds no row)
IngestedBefore(a, b) ==
    \/ a.Source = "Revolut" /\ b.Source = "T212"
    \/ a.Source = b.Source /\ a.Row < b.Row

\* C20: the master ledger main writes is ordered by date ascending, and rows of
\* equal date keep their ingestion order.
C20_SortedStable ==
    Resolved =>
        /\ DOMAIN master_file.rows = DOMAIN all_rows
        /\ \A i \in DOMAIN all_rows : master_file.rows[i] = CsvRow(all_rows[i])
        /\ \A i, j \in DOMAIN all_rows :
              i < j =>
                  /\ all_rows[i].Date <= all_rows[j].Date
                  /\ all_rows[i].Date = all_rows[j].Date
                        => IngestedBefore(all_rows[i], all_rows[j])

\* a ledger in which a T212 row was moved before a Revolut row, and which has
\* two rows of one date from different providers
C20_Witness ==
    /\ Resolved
    /\ \E i, j \in DOMAIN all_rows :
          i < j /\ all_rows[i].Source = "T212" /\ all_rows[j].Source = "Revolut"
    /\ \E i, j \in DOMAIN all_rows :
          /\ i < j
          /\ all_rows[i].Date = all_rows[j].Date
          /\ all_rows[i].Source # all_rows[j].Source

\* the amount process_revolut parses from a row: abs of Total Amount, or of
\* Amount when Total Amount is empty or zero
ParsedAmount(row) ==
    FAbs(clean_number(IF FTruthy(row.TotalAmount) THEN row.TotalAmount ELSE row.Amount))

\* a step of process_revolut on a row whose currency is EUR
C21_EurStep ==
    (/\ pc = "revolut"
     /\ Len(revolut_csv') = Len(revolut_csv) + 1
     /\ revolut_csv'[Len(revolut_csv')].Currency = "EUR")
        => /\ rate_call' = rate_call
           /\ audit_log' = audit_log
           /\ \A k \in DOMAIN all_rows' :
                 (all_rows'[k].Source = "Revolut" /\ all_rows'[k].Row = Len(revolut_csv))
                     => all_rows'[k].TotalValueEUR =
                            ParsedAmount(revolut_csv'[Len(revolut_csv')])

\* C21: for every Revolut row whose currency is EUR, process_revolut writes the
\* absolute parsed amount unchanged as TotalValueEUR, makes no get_rate call and
\* appends no audit record.
C21_EurUnconverted == [][C21_EurStep]_vars

\* an EUR row entered the ledger after a USD row was converted with a rate
C21_Witness ==
    /\ pc = "revolut"
    /\ Len(audit_log) = 1
    /\ rate_call.currency = "USD"
    /\ \E k \in DOMAIN all_rows :
          /\ InputOf(all_rows[k]).Currency = "EUR"
          /\ all_rows[k].Row = Len(revolut_csv) - 1
          /\ all_rows[k].TotalValueEUR = ParsedAmount(InputOf(all_rows[k]))
          /\ all_rows[k].TotalValueEUR.v > 0

\* the country and the code generate_obr gives the rows of a source
ObrCountry(source) == IF source = "Revolut" THEN <<"L","T">> ELSE <<"G","B">>
ObrCode(source) == IF source = "Revolut" THEN "1" ELSE "3"

\* C22: every ObrestiItem has code 1 and country LT when the row's source is
\* Revolut, and code 3 and country GB otherwise, and it has a DrzavaVir element
\* (with that country) if and only if the withheld tax rounded to 2 decimals is
\* non-zero.
C22_InterestItem ==
    obr_doc.built =>
        \A k \in DOMAIN obr_doc.items :
            /\ ChildText(obr_doc.items[k], "VrstaObresti")
                   = ObrCode(data[obr_doc.items[k].src].Source)
            /\ ChildText(obr_doc.items[k], "Drzava")
                   = ObrCountry(data[obr_doc.items[k].src].Source)
            /\ CountTag(obr_doc.items[k], "DrzavaVir")
                   = IF RoundsNonZero(data[obr_doc.items[k].src].TaxPaidEUR)
                     THEN 1 ELSE 0
            /\ \A c \in DOMAIN obr_doc.items[k].children :
                   obr_doc.items[k].children[c].tag = "DrzavaVir"
                       => obr_doc.items[k].children[c].text
                              = ObrCountry(data[obr_doc.items[k].src].Source)

\* C23: find_isin_online is never invoked for the ticker of an INTEREST or
\* LENDING row, nor for the ticker CASH.
C23_NoLookupForInterest ==
    \A c \in DOMAIN isin_calls :
        /\ isin_calls[c].ticker # "CASH"
        /\ \A i \in DOMAIN all_rows :
              all_rows[i].Type \in {"INTEREST", "LENDING"}
                  => all_rows[i].Ticker # isin_calls[c].ticker

\* a step of the resolution pass that invokes find_isin_online is a step on a
\* BUY or SELL row that has no identifier, and the call is for its ticker
C23_LookupStep ==
    isin_calls' # isin_calls =>
        /\ pc = "resolve"
        /\ all_rows[ri].Type \in {"BUY", "SELL"}
        /\ all_rows[ri].ISIN = <<>>
        /\ isin_calls' = Append(isin_calls, isin_calls'[Len(isin_calls')])
        /\ isin_calls'[Len(isin_calls')].ticker = all_rows[ri].Ticker

\* C23, the part on the kinds: only rows of kind BUY or SELL trigger a lookup.
C23_OnlyTradesTrigger == [][C23_LookupStep]_vars

\* the Dividend elements of a body: its children and the children of its
\* children
DividendsIn(body) ==
    {body[k] : k \in {j \in DOMAIN body : body[j].tag = "Dividend"}}
    \cup UNION {{body[k].children[c] :
                    c \in {e \in DOMAIN body[k].children :
                              body[k].children[e].tag = "Dividend"}}
                : k \in {j \in DOMAIN body : body[j].tag # "Dividend"}}

\* the text is absent, empty or blank
Blank(text) == \A i \in DOMAIN text : text[i] = " "

\* a Dividend element FURS accepts: a numeric Value above zero, and a payer and
\* a source country that are filled in
AcceptedDividend(d) ==
    /\ CountTag(d, "Value") = 1
    /\ ~ChildText(d, "Value").none
    /\ ~ChildText(d, "Value").neg
    /\ ChildText(d, "Value").n > 0
    /\ CountTag(d, "PayerCountry") = 1
    /\ ~Blank(ChildText(d, "PayerCountry"))
    /\ CountTag(d, "SourceCountry") = 1
    /\ ~Blank(ChildText(d, "SourceCountry"))

NonZeroRateDays(rt, d, currency) ==
    {i \in RateDays(rt, d, currency) : rt[d - i][currency].v # 0}

\* C25: a rate of zero is treated like a missing one: get_rate skips the day
\* and goes on looking back, returns the first present non-zero rate of the 5
\* days or not-found, and never raises.
C25_ZeroRateSkipped ==
    (pc = "called" /\ rate_call.currency # "EUR") =>
        /\ rate_call.result.kind # "raise"
        /\ NonZeroRateDays(rates, rate_call.date, rate_call.currency) = {}
              => rate_call.result = NotFound
        /\ \A i \in NonZeroRateDays(rates, rate_call.date, rate_call.currency) :
              (\A j \in NonZeroRateDays(rates, rate_call.date, rate_call.currency) :
                  i <= j)
                  => rate_call.result =
                         Found(rates[rate_call.date - i][rate_call.currency].v,
                               rate_call.date - i)

\* the ledger rows whose value was converted: Revolut rows of a currency other
\* than EUR for which the look-back found a rate
Converted(r) ==
    /\ r.Source = "Revolut"
    /\ InputOf(r).Currency # "EUR"
    /\ get_rate(rates, r.Date, InputOf(r).Currency).kind = "found"

\* the audit record is the record of the conversion of ledger row r
RecordOf(a, r) ==
    /\ a.Source = r.Source
    /\ a.Date = r.Date
    /\ a.Curr = InputOf(r).Currency
    /\ a.FinalEUR = r.TotalValueEUR

\* one audit record for each converted ledger row, none for another row, and
\* the record's converted value is the row's TotalValueEUR
C26_OneRecordPerConversion ==
    pc # "crashed" =>
        /\ Len(audit_log) = Cardinality({j \in DOMAIN all_rows : Converted(all_rows[j])})
        /\ \A i \in DOMAIN audit_log :
              \E j \in DOMAIN all_rows :
                  Converted(all_rows[j]) /\ RecordOf(audit_log[i], all_rows[j])
        /\ \A j \in DOMAIN all_rows :
              Converted(all_rows[j]) =>
                  Cardinality({i \in DOMAIN audit_log : RecordOf(audit_log[i], all_rows[j])})
                      = Cardinality({k \in DOMAIN all_rows :
                                        /\ Converted(all_rows[k])
                                        /\ all_rows[k].Date = all_rows[j].Date
                                        /\ InputOf(all_rows[k]).Currency
                                               = InputOf(all_rows[j]).Currency
                                        /\ all_rows[k].TotalValueEUR
                                               = all_rows[j].TotalValueEUR})

\* the date an audit record names is the date of the rate the look-back used
RateDateNamed(a) == a.Date = get_rate(rates, a.Date, a.Curr).date

\* C26: the audit log holds exactly one record for each ledger row converted
\* from a currency other than EUR and none for another row; the record's
\* converted value is the row's TotalValueEUR, and the record names the date of
\* the rate the look-back used.
C26_AuditRecords ==
    /\ C26_OneRecordPerConversion
    /\ pc # "crashed" => \A i \in DOMAIN audit_log : RateDateNamed(audit_log[i])

\* ------------------------------- experimentf_files/t212_rev_2_master.py
\* The first converter: csv.DictReader rows, whose cells are texts. Its dates
\* are texts too, a tuple of characters each.
DigitChars == <<"0","1","2","3","4","5","6","7","8","9">>
DigitOf == [c \in Range(DigitChars) |-> IndexIn(c, DigitChars) - 1]

\* ord() of the characters of a date text
CharCode == [c \in Range(DigitChars) \cup {" ", "-", ".", "/", ":"} |->
                IF c = " " THEN 32 ELSE IF c = "-" THEN 45 ELSE IF c = "." THEN 46
                ELSE IF c = "/" THEN 47 ELSE IF c = ":" THEN 58 ELSE 48 + DigitOf[c]]

\* str.split(sep): the parts between the separators
RECURSIVE SplitOn(_, _, _)
SplitOn(text, sep, part) ==
    IF text = <<>> THEN <<part>>
    ELSE IF Head(text) = sep THEN <<part>> \o SplitOn(Tail(text), sep, <<>>)
    ELSE SplitOn(Tail(text), sep, Append(part, Head(text)))

\* int() of a run of digits
RECURSIVE IntOf(_)
IntOf(digits) ==
    IF digits = <<>> THEN 0
    ELSE 10 * IntOf(SubSeq(digits, 1, Len(digits) - 1)) + DigitOf[digits[Len(digits)]]

\* a directive of strptime matches the whole part: %Y four digits, %m and %d
\* one or two digits of a number from 1 on
Digits(part, least, most) ==
    /\ Len(part) \in least..most
    /\ \A i \in DOMAIN part : part[i] \in DOMAIN DigitOf

DaysInMonth(y, m) ==
    IF m = 2 THEN (IF y % 4 = 0 /\ (y % 100 # 0 \/ y % 400 = 0) THEN 29 ELSE 28)
    ELSE IF m \in {4, 6, 9, 11} THEN 30 ELSE 31

\* a layout of parse_date: the separator, the places of year, month and day,
\* and whether ' %H:%M:%S' follows
Layout(sep, y, m, d, time) == [sep |-> sep, y |-> y, m |-> m, d |-> d, time |-> time]

\* lines 16-21, in the order of the list
formats ==
    << Layout("-", 1, 2, 3, FALSE), Layout("-", 1, 2, 3, TRUE),
       Layout("/", 3, 2, 1, FALSE), Layout("/", 3, 2, 1, TRUE),
       Layout("/", 3, 1, 2, FALSE), Layout("/", 3, 1, 2, TRUE),
       Layout(".", 3, 2, 1, FALSE), Layout("-", 3, 2, 1, FALSE) >>

NoDate == [ok |-> FALSE, y |-> 0, m |-> 0, d |-> 0]

\* datetime.strptime(token, fmt): the date, or ValueError (ok is FALSE). The
\* token holds no blank, so a layout with a time of day never matches it.
strptime(token, fmt) ==
    LET parts == SplitOn(token, fmt.sep, <<>>)
    IN  IF fmt.time \/ Len(parts) # 3 THEN NoDate
        ELSE IF ~(/\ Digits(parts[fmt.y], 4, 4)
                  /\ Digits(parts[fmt.m], 1, 2)
                  /\ Digits(parts[fmt.d], 1, 2)) THEN NoDate
        ELSE IF /\ IntOf(parts[fmt.y]) >= 1
                /\ IntOf(parts[fmt.m]) \in 1..12
                /\ IntOf(parts[fmt.d]) \in
                       1..DaysInMonth(IntOf(parts[fmt.y]), IntOf(parts[fmt.m]))
        THEN [ok |-> TRUE, y |-> IntOf(parts[fmt.y]), m |-> IntOf(parts[fmt.m]),
              d |-> IntOf(parts[fmt.d])]
        ELSE NoDate

TwoDigits(n) == <<DigitChars[(n \div 10) + 1], DigitChars[(n % 10) + 1]>>

\* strftime('%Y-%m-%d') of a date of the years 1000 to 9999
strftime(date) ==
    TwoDigits(date.y \div 100) \o TwoDigits(date.y % 100) \o <<"-">>
        \o TwoDigits(date.m) \o <<"-">> \o TwoDigits(date.d)

\* lines 22-27: the first layout that parses the text before the first blank,
\* and the text as it came when none does
RECURSIVE TryFormats(_, _)
TryFormats(date_str, k) ==
    IF k > Len(formats) THEN date_str
    ELSE LET got == strptime(SplitOn(date_str, " ", <<>>)[1], formats[k])
         IN  IF got.ok THEN strftime(got) ELSE TryFormats(date_str, k + 1)

parse_date(date_str) == TryFormats(date_str, 1)

\* lines 30-37 on a cell that is empty or a number
clean_number_text(value) == IF value.num THEN value.v ELSE 0

Abs(x) == IF x < 0 THEN -x ELSE x

\* a row of trading212.csv as csv.DictReader gives it; the file has the columns
\* Action, Time, Ticker, Total (EUR), Total, Exchange rate, No. of shares and
\* Withholding tax (EUR), and no columns ISIN, Name and Withholding tax
LegacyIn(action, time, ticker, total_eur, total, exchange_rate, shares, tax) ==
    [Action |-> action, Time |-> time, Ticker |-> ticker, TotalEUR |-> total_eur,
     Total |-> total, ExchangeRate |-> exchange_rate, Shares |-> shares, Tax |-> tax]

LegacyRows ==
    { LegacyIn(<<"M","a","r","k","e","t"," ","b","u","y">>, <<"2","0","2","5","-","0","1","-","1","0"," ","0","9",":","3","0",":","0","0">>, "AAA", Num(320000), EmptyCell, EmptyCell, Num(100000), EmptyCell),
      LegacyIn(<<"M","a","r","k","e","t"," ","s","e","l","l">>, <<"1","0","/","0","1","/","2","0","2","5">>, "AAA", EmptyCell, Num(4000), Num(50000), Num(-100000), EmptyCell),
      LegacyIn(<<"D","i","v","i","d","e","n","d"," ","(","O","r","d","i","n","a","r","y",")">>, <<"0","1","/","1","3","/","2","0","2","5">>, "AAA", Num(-50000), EmptyCell, EmptyCell, EmptyCell, Num(-7500)),
      LegacyIn(<<"M","a","r","k","e","t"," ","b","u","y">>, <<"9",".","1",".","2","0","2","5">>, "BBB", EmptyCell, Num(200000), EmptyCell, Num(100000), EmptyCell),
      LegacyIn(<<"M","a","r","k","e","t"," ","s","e","l","l">>, <<"2","0","2","5","/","0","1","/","1","0">>, "BBB", Num(320000), EmptyCell, EmptyCell, Num(100000), EmptyCell),
      LegacyIn(<<"M","a","r","k","e","t"," ","b","u","y">>, <<"2","0","2","5","-","0","2","-","3","0">>, "BBB", Num(320000), EmptyCell, EmptyCell, Num(100000), EmptyCell),
      LegacyIn(<<"M","a","r","k","e","t"," ","s","e","l","l">>, <<>>, "AAA", Num(320000), EmptyCell, EmptyCell, Num(100000), EmptyCell),
      LegacyIn(<<"D","e","p","o","s","i","t">>, <<"2","0","2","5","-","0","1","-","1","0"," ","0","9",":","3","0",":","0","0">>, "", Num(320000), EmptyCell, EmptyCell, EmptyCell, EmptyCell) }

\* lines 50-89: one iteration of process_trading212's loop, the entries it
\* appends to data
process_trading212(row) ==
    LET action == Lower(row.Action)
        type_mapped == IF Contains(action, <<"b","u","y">>) THEN "BUY"
                       ELSE IF Contains(action, <<"s","e","l","l">>) THEN "SELL"
                       ELSE IF Contains(action, <<"d","i","v","i","d","e","n","d">>) THEN "DIV"
                       ELSE ""
        total_eur == IF row.TotalEUR.num THEN clean_number_text(row.TotalEUR)
                     ELSE IF row.Total.num /\ row.ExchangeRate.num
                     THEN (clean_number_text(row.Total) * clean_number_text(row.ExchangeRate))
                              \div 100000
                     ELSE clean_number_text(row.Total)
    IN  IF type_mapped = "" THEN <<>>
        ELSE <<[Ticker |-> row.Ticker, Date |-> parse_date(row.Time),
                Type |-> type_mapped, Quantity |-> clean_number_text(row.Shares),
                TotalValueEUR |-> Abs(total_eur), ISIN |-> "", Name |-> "",
                TaxPaidEUR |-> Abs(clean_number_text(row.Tax)),
                Row |-> row]>>

\* str < str on date texts
RECURSIVE TextLess(_, _)
TextLess(a, b) ==
    IF b = <<>> THEN FALSE
    ELSE IF a = <<>> THEN TRUE
    ELSE IF Head(a) # Head(b) THEN CharCode[Head(a)] < CharCode[Head(b)]
    ELSE TextLess(Tail(a), Tail(b))

\* line 154: all_data.sort(key=lambda x: x['Date']), stable
RECURSIVE InsertByText(_, _)
InsertByText(sorted, r) ==
    IF sorted = <<>> THEN <<r>>
    ELSE IF ~TextLess(r.Date, sorted[Len(sorted)].Date) THEN Append(sorted, r)
    ELSE Append(InsertByText(SubSeq(sorted, 1, Len(sorted) - 1), r), sorted[Len(sorted)])

RECURSIVE SortByText(_)
SortByText(rows) ==
    IF rows = <<>> THEN <<>>
    ELSE InsertByText(SortByText(SubSeq(rows, 1, Len(rows) - 1)), rows[Len(rows)])

\* process_trading212 reads one more row of trading212.csv
ReadTrading212Row ==
    /\ pc = "legacy"
    /\ InputRows < MaxRows
    /\ \E row \in LegacyRows :
          /\ t212_csv' = Append(t212_csv, row)
          /\ all_rows' = all_rows \o process_trading212(row)
    /\ UNCHANGED <<pc, rates, rate_call, revolut_csv, audit_log, skipped_log,
                   existing_isins, searched_tickers, ri, isin_calls, master_file>>
    /\ UNCHANGED gen_vars

\* main, lines 146-165, after the last row: revolut.csv does not exist
\* (process_revolut returns no rows, lines 96-98), the rows are sorted and written
WriteMasterData ==
    /\ pc = "legacy"
    /\ pc' = "written"
    /\ all_rows' = SortByText(all_rows)
    /\ master_file' = [written |-> TRUE, rows |-> SortByText(all_rows)]
    /\ UNCHANGED <<rates, rate_call, revolut_csv, t212_csv, audit_log, skipped_log,
                   existing_isins, searched_tickers, ri, isin_calls>>
    /\ UNCHANGED gen_vars

InitLegacy == pc = "legacy" /\ gpc = "idle" /\ PrepIdle /\ GenIdle

NextLegacy == ReadTrading212Row \/ WriteMasterData

SpecLegacy == InitLegacy /\ [][NextLegacy]_vars

\* a text is a date in the form YYYY-MM-DD
Canonical(text) ==
    /\ Len(text) = 10
    /\ strptime(text, formats[1]).ok
    /\ strftime(strptime(text, formats[1])) = text

\* C27: when no layout of parse_date parses the text the row is not written to
\* the ledger with the unparsed text as its Date: every Date of the ledger and
\* of the written file is a date in the form YYYY-MM-DD.
C27_CanonicalDates ==
    /\ \A i \in DOMAIN all_rows : Canonical(all_rows[i].Date)
    /\ \A i \in DOMAIN master_file.rows : Canonical(master_file.rows[i].Date)

\* what the converter does: a Date is in the form YYYY-MM-DD, or it is the
\* text of the row's Time cell, which no layout parses
C27_CanonicalOrRaw ==
    \A i \in DOMAIN all_rows :
        \/ Canonical(all_rows[i].Date)
        \/ /\ all_rows[i].Date = all_rows[i].Row.Time
           /\ \A k \in DOMAIN formats :
                 ~strptime(SplitOn(all_rows[i].Row.Time, " ", <<>>)[1], formats[k]).ok

\* C28: find_isin_online is never invoked for a ticker for which a row of the
\* ledger came with a non-empty sanitized identifier, and from the sanitizing
\* on a row that came with an identifier has that identifier, whatever the
\* resolution pass did.
C28_CarriedIsSourceOfTruth ==
    /\ \A i \in DOMAIN isin_calls : Carried(isin_calls[i].ticker) = {}
    /\ pc \in {"resolve", "done"} =>
          \A i \in DOMAIN all_rows :
              OwnIsin(all_rows[i]) # <<>> => all_rows[i].ISIN = OwnIsin(all_rows[i])

\* the pass is over; a lookup was made for one ticker, and a trade of another
\* ticker that came without an identifier has the one a row of its ticker
\* carried, which that row still has
C28_Witness ==
    /\ Resolved
    /\ isin_calls # <<>>
    /\ \E i, j \in DOMAIN all_rows :
          /\ IsTrade(all_rows[i])
          /\ OwnIsin(all_rows[i]) = <<>>
          /\ all_rows[j].Ticker = all_rows[i].Ticker
          /\ OwnIsin(all_rows[j]) # <<>>
          /\ all_rows[j].ISIN = OwnIsin(all_rows[j])
          /\ all_rows[i].ISIN = OwnIsin(all_rows[j])
          /\ \A k \in DOMAIN isin_calls : isin_calls[k].ticker # all_rows[i].Ticker

\* C29: every ObrestiItem of generate_obr has exactly one TujDavek element,
\* whether the withheld tax is zero or not.
C29_OneTujDavek ==
    obr_doc.built =>
        \A k \in DOMAIN obr_doc.items : CountTag(obr_doc.items[k], "TujDavek") = 1

\* what generate_obr emits: two TujDavek elements when the withheld tax rounded
\* to 2 decimals is not zero, and one when it is
C29_TujDavekTwice ==
    obr_doc.built =>
        \A k \in DOMAIN obr_doc.items :
            CountTag(obr_doc.items[k], "TujDavek")
                = IF RoundsNonZero(data[obr_doc.items[k].src].TaxPaidEUR) THEN 2 ELSE 1

\* the records the adapters appended to the skip log
AdapterSkipRecords == {k \in DOMAIN skipped_log : skipped_log[k].Source # "ISIN_CHECK"}

\* every input row read so far has one ledger row or one skip record, not both
\* and not neither
RowsConserved ==
    /\ \A i \in DOMAIN revolut_csv :
          Cardinality(LedgerRowsOf("Revolut", i - 1))
              + Cardinality(SkipRecordsOf("Revolut", i - 1)) = 1
    /\ \A i \in DOMAIN t212_csv :
          Cardinality(LedgerRowsOf("T212", i - 1))
              + Cardinality(SkipRecordsOf("T212", i - 1)) = 1
    /\ Len(all_rows) + Cardinality(AdapterSkipRecords) = InputRows

\* C30: every input row process_revolut or process_t212 has processed yields
\* exactly one ledger row or exactly one skip record, never both and never
\* neither: the ledger rows and the adapters' skip records together are as many
\* as the input rows.
C30_RowConservation == RowsConserved

\* the conservation on the runs in which no adapter raised
C30_ConservedUnlessRaised == ~AdapterRaised => RowsConserved

\* a step appends to the skip log and to the audit log, and removes nothing
C30_LogStep ==
    /\ Len(skipped_log') >= Len(skipped_log)
    /\ SubSeq(skipped_log', 1, Len(skipped_log)) = skipped_log
    /\ Len(audit_log') >= Len(audit_log)
    /\ SubSeq(audit_log', 1, Len(audit_log)) = audit_log

C30_LogsOnlyGrow == [][C30_LogStep]_vars

====
